---- MODULE Spec2Model ----
(***************************************************************************)
(* Label lifecycle engine of mongodb-labeler: LabelerServer               *)
(* (src/src/LabelerServer.ts) over MongoDBClient (src/src/mongodb.ts).    *)
(*                                                                         *)
(* Strings are sequences of one-character strings.  An optional string is *)
(* a sequence of length <= 1 (<<>> = undefined, <<s>> = the string s).    *)
(* A timestamp value is a record [tag, t, form]: tag "undef" / "null" /   *)
(* "str"; for a string, t is the instant it denotes and form tells        *)
(* whether it is the Date.toISOString() spelling ("iso"), another         *)
(* accepted ISO-8601 spelling of the same instant ("alt"), or not a       *)
(* timestamp at all ("bad").                                              *)
(***************************************************************************)
EXTENDS Integers, Sequences, FiniteSets, TLC

\* ------------------------------------------------------------------ bounds
MaxLabels  == 2      \* records the collection may hold
MaxClock   == 2      \* last instant of the server clock
MaxOid     == 4      \* ObjectIds the process may generate
MaxLimit   == 2      \* largest limit / cursor offset tried by a reader
MaxWriters == 3      \* concurrent saveLabel calls on the counter store
MaxSeq     == 4      \* largest value of the 'labelId' counter
MaxCallers == 2      \* calls in progress while the signer import settles
MaxSigLen  == 3      \* longest signature handed to formatLabel, in bytes
MaxValLen  == 3      \* longest label value handed to validateVal alone
MaxFields  == 2      \* most keys of a label object handed to signLabel
MaxSockets == 2      \* sockets that ask for subscribeLabels
ReplayLimit == 2     \* stands for the 1000 labels a replay reads at most

\* ------------------------------------------------------- string helpers
LowerLetters == {"a","b","c","d","e","f","g","h","i","j","k","l","m",
                 "n","o","p","q","r","s","t","u","v","w","x","y","z"}
Whitespace   == {" ", "\t", "\n"}

StartsWith(s, p) == Len(s) >= Len(p) /\ SubSeq(s, 1, Len(p)) = p
HasAny(s, cs)    == \E i \in 1..Len(s) : s[i] \in cs
AllIn(s, cs)     == \A i \in 1..Len(s) : s[i] \in cs
Tail0(s)         == IF s = <<>> THEN <<>> ELSE Tail(s)

\* String.prototype.split(":")
RECURSIVE SplitColon(_)
SplitColon(s) ==
    IF ~HasAny(s, {":"}) THEN <<s>>
    ELSE LET i == CHOOSE k \in 1..Len(s) :
                     s[k] = ":" /\ \A j \in 1..(k-1) : s[j] # ":"
         IN  <<SubSeq(s, 1, i-1)>> \o SplitColon(SubSeq(s, i+1, Len(s)))

\* Array.prototype.join(":")
RECURSIVE JoinColon(_)
JoinColon(parts) ==
    IF parts = <<>> THEN <<>>
    ELSE IF Len(parts) = 1 THEN parts[1]
    ELSE parts[1] \o <<":">> \o JoinColon(Tail(parts))

\* ------------------------------------------------------------ validators
\* Every validator returns "ok" or the message of the
\* AtProtocolValidationError it throws.
DidInvalidChars == Whitespace \cup {"<", ">", "{", "}", "[", "]", "|", "BSLASH", "^", "BTICK"}
MaxDidMethod    == 32
MaxDidSpecific  == 512
MaxValBytes     == 128

validateDid(did) ==
    IF did = <<>> THEN "DID cannot be empty"
    ELSE IF ~StartsWith(did, <<"d","i","d",":">>) THEN "DID must start with did:"
    ELSE LET parts == SplitColon(did) IN
    IF Len(parts) < 3 THEN "DID must have at least three parts"
    ELSE LET method     == parts[2]
             specificId == JoinColon(SubSeq(parts, 3, Len(parts))) IN
    IF method = <<>> \/ ~AllIn(method, LowerLetters)
        THEN "DID method must contain only lowercase letters"
    ELSE IF Len(method) < 2 \/ Len(method) > MaxDidMethod
        THEN "DID method must be between 2 and 32 characters"
    ELSE IF specificId = <<>> THEN "DID specific-id cannot be empty"
    ELSE IF HasAny(specificId, DidInvalidChars)
        THEN "DID specific-id contains invalid characters"
    ELSE IF Len(specificId) > MaxDidSpecific THEN "DID specific-id is too long"
    ELSE "ok"

\* new AtUri(uri) of @atproto/syntax: the host after at:// is not empty,
\* starts with a letter or digit and the whole has no whitespace.
AtUriParses(uri) ==
    LET rest == SubSeq(uri, 6, Len(uri)) IN
    /\ rest # <<>>
    /\ rest[1] \in LowerLetters
    /\ ~HasAny(rest, Whitespace)

validateUri(uri) ==
    IF uri = <<>> THEN "URI cannot be empty"
    ELSE IF StartsWith(uri, <<"d","i","d",":">>) THEN validateDid(uri)
    ELSE IF StartsWith(uri, <<"a","t",":","/","/">>)
        THEN IF AtUriParses(uri) THEN "ok" ELSE "Invalid AT Protocol URI"
    ELSE "URI must start with either did: or at://"

\* CID.parse of multiformats: the strings it accepts.
ParsableCids == { <<"b","a","f","y">> }

validateCid(cidStr) ==
    IF cidStr = <<>> THEN "CID cannot be empty"
    ELSE IF ~StartsWith(cidStr, <<"Q">>) /\ ~StartsWith(cidStr, <<"b">>)
        THEN "CID must start with Q or b"
    ELSE IF cidStr \notin ParsableCids THEN "Invalid CID format"
    ELSE "ok"

AsciiChars   == LowerLetters \cup Whitespace \cup DidInvalidChars
                  \cup {"!", ".", ",", ":", ";", "#", "_", "QUOTE", "-", "/"}
ValPunctRest == {".", ",", ":", ";", "#", "_", "QUOTE", ">", "BTICK", "<", "BSLASH", "|", "^"}
ValPunctAll  == ValPunctRest \cup {"!"}

validateVal(val) ==
    IF val = <<>> THEN "Label value cannot be empty"
    ELSE IF Len(val) > MaxValBytes THEN "Label value cannot exceed 128 bytes"
    ELSE IF HasAny(val, Whitespace) THEN "Label value cannot contain whitespace"
    ELSE IF ~AllIn(val, AsciiChars) THEN "Label value must only contain ASCII characters"
    ELSE IF val[1] = "!"
        THEN IF HasAny(Tail(val), ValPunctRest)
                 THEN "Label value contains invalid punctuation characters"
                 ELSE "ok"
    ELSE IF HasAny(val, ValPunctAll)
        THEN "Label value contains invalid punctuation characters"
    ELSE "ok"

\* ------------------------------------------------------------ timestamps
Undef     == [tag |-> "undef", t |-> 0, form |-> "iso"]
Null      == [tag |-> "null",  t |-> 0, form |-> "iso"]
TsStr(t, form) == [tag |-> "str", t |-> t, form |-> form]

\* Date.prototype.toISOString of the instant t
toISOString(t) == TsStr(t, "iso")

\* JavaScript truthiness of an optional timestamp string
Truthy(ts) == ts.tag = "str"

\* validateTimestamp that lets an exp equal to now pass
validateTimestampAcceptsNow(timestamp, fieldName, allowExpired, now) ==
    IF ~Truthy(timestamp) THEN "timestamp cannot be empty"
    ELSE IF timestamp.form = "bad" THEN "timestamp must be in ISO 8601 format"
    ELSE IF fieldName = "cts" /\ timestamp.t > now
        THEN "Creation timestamp cannot be in the future"
    ELSE IF fieldName = "exp" /\ ~allowExpired /\ timestamp.t < now
        THEN "Expiration timestamp must be in the future"
    ELSE "ok"

\* validateTimestamp that does not compare a cts with the clock
validateTimestampCtsUnchecked(timestamp, fieldName, allowExpired, now) ==
    IF ~Truthy(timestamp) THEN "timestamp cannot be empty"
    ELSE IF timestamp.form = "bad" THEN "timestamp must be in ISO 8601 format"
    ELSE IF fieldName = "exp" /\ ~allowExpired /\ timestamp.t <= now
        THEN "Expiration timestamp must be in the future"
    ELSE "ok"

\* validateTimestamp(timestamp, fieldName, allowExpired); now is what its
\* new Date() reads
validateTimestamp(timestamp, fieldName, allowExpired, now) ==
    IF ~Truthy(timestamp) THEN "timestamp cannot be empty"
    ELSE IF timestamp.form = "bad" THEN "timestamp must be in ISO 8601 format"
    ELSE IF fieldName = "cts" /\ timestamp.t > now
        THEN "Creation timestamp cannot be in the future"
    ELSE IF fieldName = "exp" /\ ~allowExpired /\ timestamp.t <= now
        THEN "Expiration timestamp must be in the future"
    ELSE "ok"

validateCts(cts, now)               == validateTimestamp(cts, "cts", FALSE, now)
validateExp(exp, allowExpired, now) == validateTimestamp(exp, "exp", allowExpired, now)

\* ------------------------------------------------------------ label data
\* A JavaScript label object.  _id = 0: no _id key; sig = <<>>: no sig key;
\* neg is "undef", "true" or "false"; cid is an optional string.
DID_SERVER == <<"d","i","d",":","w","e","b",":","s">>
DID_USER   == <<"d","i","d",":","w","e","b",":","u">>
AT_POST    == <<"a","t",":","/","/","u","/","p">>
CID_OK     == <<"b","a","f","y">>

NoLabel == [_id |-> 0, ver |-> 0, val |-> <<>>, uri |-> <<>>, cid |-> <<>>,
            neg |-> "undef", exp |-> Undef, cts |-> Undef, src |-> <<>>,
            sig |-> <<>>]

\* JSON.stringify(label): the key/value pairs it emits, in the object's
\* key order; keys whose value is undefined are not emitted.
JSONstringify(label) == [json |-> label]

\* Secp256k1Keypair.sign: the signature is determined by the signed bytes.
Sign(bytes) == [rep |-> "u8", data |-> <<bytes>>]

\* new Uint8Array(x): a copy of a Uint8Array; a driver Binary object is
\* neither a typed array, an ArrayBuffer nor an iterable, and its length
\* property is a method, so it converts as an array-like of length 0.
Uint8ArrayOf(x) ==
    IF x.rep = "u8" THEN x ELSE [rep |-> "u8", data |-> <<>>]

\* BSON serialisation done by the driver (ignoreUndefined is not set): byte
\* arrays become Binary, a key holding undefined is written as null.
ToBson(doc) ==
    [doc EXCEPT !.sig = << [rep |-> "Binary", data |-> doc.sig[1].data] >>,
                !.exp = IF doc.exp.tag = "undef" THEN Null ELSE doc.exp]

\* ------------------------------------------------------------ the state
VARIABLES
    labels,     \* the 'labels' collection, in insertion order
    clock,      \* the server clock (what new Date() reads), in seconds
    oid,        \* ObjectIds generated so far by this process
    index,      \* ObjectId.index when the process started (a random value)
    signer,     \* the signer import: "pending", "ready" or "failed"
    last,       \* the last completed call: arguments, outcome, effects
    sequenceValue, \* counter store: the 'labelId' counter document (0: none)
    idLabels,      \* stores with numeric ids: the ids of the stored
                   \* labels, in insertion order
    pc,            \* stores with numeric ids: where each caller stands
    nextId,        \* stores with numeric ids: the id each caller got
                   \* from _getNextId
    dupErrors,     \* stores with numeric ids: inserts refused by the
                   \* unique id index
    calls,         \* calls in progress: operation, position, what the
                   \* call awaits, the state of the signer it invoked
    applied,       \* the last application of a utility function: its
                   \* name, its argument, what it returned or threw
    reversing,     \* reverseLabelNegation calls in progress, step by
                   \* step: position, the label read, the label signed
    connected,     \* MongoDBClient._labels is set: connect() has completed
    subs           \* subscribeLabels: each socket's position, cursor and
                   \* the frames sent to it; the registered subscribers

\* ------------------------------------------------------------ the store
\* new ObjectId(): 4 bytes of seconds since the epoch, 5 bytes fixed for the
\* process, 3 bytes of counter.  The counter is ObjectId.index, which starts
\* at a random value and is stepped modulo its span by every new ObjectId.
\* OidSpan stands for that span (0xffffff): more ids than one process
\* generates within one second.  ObjectIds compare as their bytes do, that
\* is by (seconds, counter).
OidSpan == MaxOid + 1

\* the counter values a process is started with here: one far from the end
\* of the span and one close to it
IndexStarts == {0, OidSpan - 3}

\* ObjectId.getInc() of the n-th new ObjectId of the process (n = 0, 1, ...)
getInc(n) == (index + n + 1) % OidSpan

\* the n-th new ObjectId of the process, generated now
ObjectIdAt(n) == clock * OidSpan + getInc(n)

Ids(coll) == { coll[i]._id : i \in 1..Len(coll) }

\* Collection.insertOne: a duplicate _id is refused.
InsertOne(coll, doc) ==
    IF doc._id \in Ids(coll)
    THEN [ok |-> FALSE, coll |-> coll]
    ELSE [ok |-> TRUE,  coll |-> Append(coll, ToBson(doc))]

\* updateOne on a store that lets $set replace _id
UpdateOneMutableId(coll, id, fields) ==
    IF id \notin Ids(coll) THEN [ok |-> TRUE, modified |-> 0, coll |-> coll]
    ELSE LET new == IF fields._id # 0 THEN ToBson(fields)
                    ELSE [ToBson(fields) EXCEPT !._id = id] IN
         [ok |-> TRUE,
          modified |-> IF \E i \in 1..Len(coll) : coll[i]._id = id /\ coll[i] # new
                       THEN 1 ELSE 0,
          coll |-> [i \in 1..Len(coll) |->
                       IF coll[i]._id = id THEN new ELSE coll[i]]]

\* Collection.updateOne({_id: id}, {$set: fields}): _id is immutable, a $set
\* that would change it is refused with an error.
UpdateOne(coll, id, fields) ==
    IF id \notin Ids(coll) THEN [ok |-> TRUE, modified |-> 0, coll |-> coll]
    ELSE IF fields._id # 0 /\ fields._id # id
        THEN [ok |-> FALSE, modified |-> 0, coll |-> coll]
    ELSE LET new == [ToBson(fields) EXCEPT !._id = id] IN
         [ok |-> TRUE,
          modified |-> IF \E i \in 1..Len(coll) : coll[i]._id = id /\ coll[i] # new
                       THEN 1 ELSE 0,
          coll |-> [i \in 1..Len(coll) |->
                       IF coll[i]._id = id THEN new ELSE coll[i]]]

RECURSIVE SelectSeq2(_, _)
\* the documents of coll accepted by keep, in collection order
SelectSeq2(coll, keep) ==
    IF coll = <<>> THEN <<>>
    ELSE IF keep[1] THEN <<coll[1]>> \o SelectSeq2(Tail(coll), Tail(keep))
    ELSE SelectSeq2(Tail(coll), Tail(keep))

\* cursor.sort({_id: 1})
RECURSIVE SortById(_)
SortById(docs) ==
    IF docs = <<>> THEN <<>>
    ELSE LET m == CHOOSE i \in 1..Len(docs) :
                     \A j \in 1..Len(docs) : docs[i]._id <= docs[j]._id
         IN  <<docs[m]>> \o
             SortById(SubSeq(docs, 1, m-1) \o SubSeq(docs, m+1, Len(docs)))

\* cursor.limit(n): a limit of 0 is the same as no limit.
Limit(docs, n) ==
    IF n = 0 \/ n >= Len(docs) THEN docs ELSE SubSeq(docs, 1, n)

\* The filters the server builds.  kind "all": {}, "idEq": {_id: id},
\* "idGt": {_id: {$gt: id}}, "expEq": {exp: exp}.
MatchesQuery(doc, q) ==
    CASE q.kind = "all"   -> TRUE
      [] q.kind = "idEq"  -> doc._id = q.id
      [] q.kind = "idGt"  -> doc._id > q.id
      [] q.kind = "expEq" -> doc.exp = q.exp

\* {$or: [{exp: {$exists: false}}, {exp: {$gt: nowIso}}]}: the key is
\* missing, or holds a string that compares greater than nowIso.  Stored
\* exp strings are toISOString() spellings, which compare as their instants.
NotExpired(doc, nowIso) ==
    \/ doc.exp.tag = "undef"
    \/ doc.exp.tag = "str" /\ doc.exp.t > nowIso.t

\* MongoDBClient.findLabels(query, options)
findLabels(coll, q, sorted, limit, now) ==
    LET keep == [i \in 1..Len(coll) |->
                    /\ MatchesQuery(coll[i], q)
                    /\ (q.allowExpired \/ NotExpired(coll[i], toISOString(now)))]
        hits == SelectSeq2(coll, keep)
    IN  Limit(IF sorted THEN SortById(hits) ELSE hits, limit)

\* MongoDBClient.findOne({_id: id}): the document or NoLabel (null)
findOne(coll, id) ==
    IF id \in Ids(coll)
    THEN coll[CHOOSE i \in 1..Len(coll) : coll[i]._id = id]
    ELSE NoLabel

\* saveLabel that overwrites the stored record of the same subject and value
saveLabelReplacesSame(coll, label, o, ins) ==
    LET labelWithDates ==
            [label EXCEPT !.cts = toISOString(label.cts.t),
                          !.exp = IF Truthy(label.exp)
                                  THEN toISOString(label.exp.t) ELSE Undef,
                          !._id = ObjectIdAt(o)]
        same == { i \in 1..Len(coll) :
                    coll[i].uri = label.uri /\ coll[i].val = label.val }
        r == IF ins = "error" THEN [ok |-> FALSE, coll |-> coll]
             ELSE IF same # {}
             THEN [ok |-> TRUE,
                   coll |-> [i \in 1..Len(coll) |->
                               IF i = CHOOSE k \in same : TRUE
                               THEN ToBson(labelWithDates) ELSE coll[i]]]
             ELSE InsertOne(coll, labelWithDates)
    IN  [ok   |-> r.ok /\ ins = "acked",
         coll |-> r.coll,
         oid  |-> o + 1]

\* MongoDBClient.saveLabel(label) with ins the fate of the insertOne call:
\* "acked", "unacked" (written, result.acknowledged false) or "error".
\* The store draws its own ObjectId; cts and exp are re-spelled by
\* toISOString.
saveLabel(coll, label, o, ins) ==
    LET labelWithDates ==
            [label EXCEPT !.cts = toISOString(label.cts.t),
                          !.exp = IF Truthy(label.exp)
                                  THEN toISOString(label.exp.t) ELSE Undef,
                          !._id = ObjectIdAt(o)]
        r == IF ins = "error" THEN [ok |-> FALSE, coll |-> coll]
             ELSE InsertOne(coll, labelWithDates)
    IN  [ok   |-> r.ok /\ ins = "acked",
         coll |-> r.coll,
         oid  |-> o + 1]

\* MongoDBClient.updateLabel(id, label)
updateLabel(coll, id, label, upd) ==
    IF upd = "error" THEN [ok |-> FALSE, coll |-> coll]
    ELSE LET r == UpdateOne(coll, id, label) IN [ok |-> r.ok, coll |-> r.coll]

\* ------------------------------------------------------------ the server
\* Outcome of a call.  outcome: "ok", "null" or "error"; msg: <<outward
\* message, reason or cause>>; trace: the signer and store calls made, in
\* order.
Outcome(outcome, msg, result, results, trace, coll, o) ==
    [outcome |-> outcome, msg |-> msg, result |-> result, results |-> results,
     trace |-> trace, labels |-> coll, oid |-> o]

\* LabelerServer._signLabel: awaits the import, then signs
\* JSON.stringify(unsignedLabel); signOk is the fate of the signer call.
\* Returns the signed label, or NoLabel when it throws.
signLabelCalls(sg) == IF sg = "ready" THEN <<"sign">> ELSE <<>>
signLabel(unsignedLabel, sg, signOk) ==
    IF sg # "ready" \/ ~signOk THEN NoLabel
    ELSE [unsignedLabel EXCEPT
             !.sig = << Uint8ArrayOf(Sign(JSONstringify(unsignedLabel))) >>]

\* createLabel, the version check: if (data.ver !== 1) throw new
\* AtProtocolValidationError("Label validation failed: Label version must be
\* 1").  An absent ver (0 here) differs from 1 as well.  The message thrown
\* already carries the words the catch block puts in front of it.
checkVersionAcceptsAny(data) == "ok"

checkVersion(data) ==
    IF data.ver # 1 THEN "Label validation failed: Label version must be 1"
    ELSE "ok"

\* createLabel, the relationship between uri and cid: no cid on a did: uri,
\* a cid given with an at:// uri is validated and a missing one only warned
\* about, any other uri is refused.  if (data.cid) is false for an absent
\* and for an empty cid.
checkUriCidIgnoresDid(data) ==
    IF StartsWith(data.uri, <<"a","t",":","/","/">>)
          /\ data.cid # <<>> /\ data.cid[1] # <<>>
          /\ validateCid(data.cid[1]) # "ok"
        THEN validateCid(data.cid[1])
    ELSE IF ~StartsWith(data.uri, <<"d","i","d",":">>)
              /\ ~StartsWith(data.uri, <<"a","t",":","/","/">>)
        THEN "URI must start with either did: or at://"
    ELSE "ok"

checkUriCid(data) ==
    IF StartsWith(data.uri, <<"d","i","d",":">>)
          /\ data.cid # <<>> /\ data.cid[1] # <<>>
        THEN "CID cannot be provided for DID URIs"
    ELSE IF StartsWith(data.uri, <<"a","t",":","/","/">>)
              /\ data.cid # <<>> /\ data.cid[1] # <<>>
              /\ validateCid(data.cid[1]) # "ok"
        THEN validateCid(data.cid[1])
    ELSE IF ~StartsWith(data.uri, <<"d","i","d",":">>)
              /\ ~StartsWith(data.uri, <<"a","t",":","/","/">>)
        THEN "URI must start with either did: or at://"
    ELSE "ok"

\* The validation steps of createLabel, in order: "ok" or the message of
\* the first AtProtocolValidationError thrown.
createLabelValidation(data, allowExpired, now) ==
    LET cts == IF data.cts.tag = "str" THEN data.cts ELSE toISOString(now) IN
    IF checkVersion(data) # "ok" THEN checkVersion(data)
    ELSE IF validateVal(data.val) # "ok" THEN validateVal(data.val)
    ELSE IF validateUri(data.uri) # "ok" THEN validateUri(data.uri)
    ELSE IF checkUriCid(data) # "ok" THEN checkUriCid(data)
    ELSE IF data.src # <<>> /\ data.src[1] # <<>> /\ validateDid(data.src[1]) # "ok"
        THEN validateDid(data.src[1])
    ELSE IF validateCts(cts, now) # "ok" THEN validateCts(cts, now)
    ELSE IF Truthy(data.exp) /\ validateExp(data.exp, allowExpired, now) # "ok"
        THEN validateExp(data.exp, allowExpired, now)
    ELSE "ok"

\* catch (error) of createLabel and queryLabels: an AtProtocolValidationError
\* is rethrown as LabelerServerError('Label validation failed: ' + message).
\* The validators that createLabel imports throw the class that ./errors
\* exports, the one the catch tests for with instanceof.
rethrowValidationAsFailure(message) == <<"Failed to create label", message>>

rethrowValidation(message) == <<"Label validation failed", message>>

\* The unsigned label createLabel assembles from validated data:
\* ...(data.cid ? { cid: data.cid } : {}) leaves the cid key out for an
\* absent and for an empty cid.
createUnsignedKeepsEmptyCid(data, now) ==
    [_id |-> 0, ver |-> 1, val |-> data.val, uri |-> data.uri,
     cid |-> data.cid,
     neg |-> IF data.neg = "true" THEN "true" ELSE "undef",
     exp |-> data.exp,
     cts |-> IF data.cts.tag = "str" THEN data.cts ELSE toISOString(now),
     src |-> IF data.src # <<>> THEN data.src[1] ELSE DID_SERVER,
     sig |-> <<>>]

createUnsigned(data, now) ==
    [_id |-> 0, ver |-> 1, val |-> data.val, uri |-> data.uri,
     cid |-> IF data.cid # <<>> /\ data.cid[1] # <<>> THEN data.cid ELSE <<>>,
     neg |-> IF data.neg = "true" THEN "true" ELSE "undef",
     exp |-> data.exp,
     cts |-> IF data.cts.tag = "str" THEN data.cts ELSE toISOString(now),
     src |-> IF data.src # <<>> THEN data.src[1] ELSE DID_SERVER,
     sig |-> <<>>]

\* createLabel with the timestamp checks moved behind the signing and saving
createLabelLateValidation(coll, o, sg, data, allowExpired, now, signOk, ins) ==
    IF sg = "failed"
    THEN Outcome("error", <<"Failed to create label", "Failed to initialize signer">>,
                 NoLabel, <<>>, <<>>, coll, o)
    ELSE LET v == createLabelValidation([data EXCEPT !.cts = Undef, !.exp = Undef],
                                        allowExpired, now) IN
    IF v # "ok"
    THEN Outcome("error", rethrowValidation(v), NoLabel, <<>>, <<>>, coll, o)
    ELSE LET unsignedLabel == createUnsigned(data, now)
             signedLabel   == signLabel(unsignedLabel, sg, signOk) IN
    IF signedLabel = NoLabel
    THEN Outcome("error", <<"Failed to create label", "Failed to sign label">>,
                 NoLabel, <<>>, signLabelCalls(sg), coll, o)
    ELSE LET savedLabel == [unsignedLabel EXCEPT !.sig = signedLabel.sig,
                                                 !._id = ObjectIdAt(o)]
             s == saveLabel(coll, savedLabel, o + 1, ins)
             w == createLabelValidation(data, allowExpired, now) IN
    IF ~s.ok
    THEN Outcome("error", <<"Failed to create label", "Failed to save label">>,
                 NoLabel, <<>>, <<"sign", "insert">>, s.coll, s.oid)
    ELSE IF w # "ok"
    THEN Outcome("error", rethrowValidation(w), NoLabel, <<>>,
                 <<"sign", "insert">>, s.coll, s.oid)
    ELSE Outcome("ok", <<"", "">>, signedLabel, <<>>, <<"sign", "insert">>,
                 s.coll, s.oid)

\* createLabel that returns the signed label although saving it failed
createLabelSwallowsSaveError(coll, o, sg, data, allowExpired, now, signOk, ins) ==
    IF sg = "failed"
    THEN Outcome("error", <<"Failed to create label", "Failed to initialize signer">>,
                 NoLabel, <<>>, <<>>, coll, o)
    ELSE LET v == createLabelValidation(data, allowExpired, now) IN
    IF v # "ok"
    THEN Outcome("error", rethrowValidation(v), NoLabel, <<>>, <<>>, coll, o)
    ELSE LET unsignedLabel == createUnsigned(data, now)
             signedLabel   == signLabel(unsignedLabel, sg, signOk) IN
    IF signedLabel = NoLabel
    THEN Outcome("error", <<"Failed to create label", "Failed to sign label">>,
                 NoLabel, <<>>, signLabelCalls(sg), coll, o)
    ELSE LET savedLabel == [unsignedLabel EXCEPT !.sig = signedLabel.sig,
                                                 !._id = ObjectIdAt(o)]
             s == saveLabel(coll, savedLabel, o + 1, ins) IN
    Outcome("ok", <<"", "">>, signedLabel, <<>>, <<"sign", "insert">>,
            s.coll, s.oid)

\* LabelerServer.createLabel(data, allowExpired)
createLabel(coll, o, sg, data, allowExpired, now, signOk, ins) ==
    IF sg = "failed"
    THEN Outcome("error", <<"Failed to create label", "Failed to initialize signer">>,
                 NoLabel, <<>>, <<>>, coll, o)
    ELSE LET v == createLabelValidation(data, allowExpired, now) IN
    IF v # "ok"
    THEN Outcome("error", rethrowValidation(v), NoLabel, <<>>, <<>>, coll, o)
    ELSE LET unsignedLabel == createUnsigned(data, now)
             signedLabel   == signLabel(unsignedLabel, sg, signOk) IN
    IF signedLabel = NoLabel
    THEN Outcome("error", <<"Failed to create label", "Failed to sign label">>,
                 NoLabel, <<>>, signLabelCalls(sg), coll, o)
    ELSE LET savedLabel == [unsignedLabel EXCEPT !.sig = signedLabel.sig,
                                                 !._id = ObjectIdAt(o)]
             s == saveLabel(coll, savedLabel, o + 1, ins) IN
    IF ~s.ok
    THEN Outcome("error", <<"Failed to create label", "Failed to save label">>,
                 NoLabel, <<>>, <<"sign", "insert">>, s.coll, s.oid)
    ELSE Outcome("ok", <<"", "">>, signedLabel, <<>>, <<"sign", "insert">>,
                 s.coll, s.oid)

\* A stored document as the server hands it out: {...label, sig: new
\* Uint8Array(label.sig)}
withSigBytes(label) == [label EXCEPT !.sig = << Uint8ArrayOf(label.sig[1]) >>]

\* queryLabels that never filters by expiry
queryLabelsIgnoresExpiry(coll, o, sg, query, now, dbOk) ==
    IF sg = "failed"
    THEN Outcome("error", <<"Failed to query labels", "Failed to initialize signer">>,
                 NoLabel, <<>>, <<>>, coll, o)
    ELSE IF Truthy(query.exp) /\ validateExp(query.exp, query.allowExpired, now) # "ok"
    THEN Outcome("error",
                 rethrowValidation(validateExp(query.exp, query.allowExpired, now)),
                 NoLabel, <<>>, <<>>, coll, o)
    ELSE IF ~dbOk
    THEN Outcome("error", <<"Failed to query labels", "Failed to find labels">>,
                 NoLabel, <<>>, <<"find">>, coll, o)
    ELSE LET q == IF query.exp.tag = "undef"
                  THEN [kind |-> "all", id |-> 0, exp |-> Undef,
                        allowExpired |-> TRUE]
                  ELSE [kind |-> "expEq", id |-> 0, exp |-> query.exp,
                        allowExpired |-> TRUE]
             found == findLabels(coll, q, FALSE, 0, now)
         IN  Outcome("ok", <<"", "">>, NoLabel,
                     [i \in 1..Len(found) |-> withSigBytes(found[i])],
                     <<"find">>, coll, o)

\* queryLabels that hands the query to the store without validating exp
queryLabelsUnvalidated(coll, o, sg, query, now, dbOk) ==
    IF sg = "failed"
    THEN Outcome("error", <<"Failed to query labels", "Failed to initialize signer">>,
                 NoLabel, <<>>, <<>>, coll, o)
    ELSE IF ~dbOk
    THEN Outcome("error", <<"Failed to query labels", "Failed to find labels">>,
                 NoLabel, <<>>, <<"find">>, coll, o)
    ELSE LET q == IF query.exp.tag = "undef"
                  THEN [kind |-> "all", id |-> 0, exp |-> Undef,
                        allowExpired |-> query.allowExpired]
                  ELSE [kind |-> "expEq", id |-> 0, exp |-> query.exp,
                        allowExpired |-> query.allowExpired]
             found == findLabels(coll, q, FALSE, 0, now)
             keep  == [i \in 1..Len(found) |->
                          \/ query.allowExpired
                          \/ ~Truthy(found[i].exp)
                          \/ found[i].exp.t > now]
             filteredLabels == SelectSeq2(found, keep)
         IN  Outcome("ok", <<"", "">>, NoLabel,
                     [i \in 1..Len(filteredLabels) |-> withSigBytes(filteredLabels[i])],
                     <<"find">>, coll, o)

\* LabelerServer.queryLabels(query); query = [exp, allowExpired]
queryLabels(coll, o, sg, query, now, dbOk) ==
    IF sg = "failed"
    THEN Outcome("error", <<"Failed to query labels", "Failed to initialize signer">>,
                 NoLabel, <<>>, <<>>, coll, o)
    ELSE IF Truthy(query.exp) /\ validateExp(query.exp, query.allowExpired, now) # "ok"
    THEN Outcome("error",
                 rethrowValidation(validateExp(query.exp, query.allowExpired, now)),
                 NoLabel, <<>>, <<>>, coll, o)
    ELSE IF ~dbOk
    THEN Outcome("error", <<"Failed to query labels", "Failed to find labels">>,
                 NoLabel, <<>>, <<"find">>, coll, o)
    ELSE LET q == IF query.exp.tag = "undef"
                  THEN [kind |-> "all", id |-> 0, exp |-> Undef,
                        allowExpired |-> query.allowExpired]
                  ELSE [kind |-> "expEq", id |-> 0, exp |-> query.exp,
                        allowExpired |-> query.allowExpired]
             found == findLabels(coll, q, FALSE, 0, now)
             keep  == [i \in 1..Len(found) |->
                          \/ query.allowExpired
                          \/ ~Truthy(found[i].exp)
                          \/ found[i].exp.t > now]
             filteredLabels == SelectSeq2(found, keep)
         IN  Outcome("ok", <<"", "">>, NoLabel,
                     [i \in 1..Len(filteredLabels) |-> withSigBytes(filteredLabels[i])],
                     <<"find">>, coll, o)

\* LabelerServer.queryLabel(id)
queryLabel(coll, o, sg, id, dbOk) ==
    IF sg = "failed"
    THEN Outcome("error", <<"Failed to query label", "Failed to initialize signer">>,
                 NoLabel, <<>>, <<>>, coll, o)
    ELSE IF ~dbOk
    THEN Outcome("error", <<"Failed to query label", "Failed to find label">>,
                 NoLabel, <<>>, <<"find">>, coll, o)
    ELSE LET label == findOne(coll, id) IN
    IF label = NoLabel
    THEN Outcome("null", <<"", "">>, NoLabel, <<>>, <<"find">>, coll, o)
    ELSE Outcome("ok", <<"", "">>, withSigBytes(label), <<>>, <<"find">>, coll, o)

\* deleteLabel that negates the stored record in place
deleteLabelInPlace(coll, o, sg, id, dbOk, signOk, ins) ==
    IF sg = "failed"
    THEN Outcome("error", <<"Failed to delete label", "Failed to initialize signer">>,
                 NoLabel, <<>>, <<>>, coll, o)
    ELSE IF ~dbOk
    THEN Outcome("error", <<"Failed to delete label", "Failed to find label">>,
                 NoLabel, <<>>, <<"find">>, coll, o)
    ELSE LET label == findOne(coll, id) IN
    IF label = NoLabel
    THEN Outcome("null", <<"", "">>, NoLabel, <<>>, <<"find">>, coll, o)
    ELSE LET unsignedLabel == [label EXCEPT !.neg = "true"]
             signedLabel   == signLabel(unsignedLabel, sg, signOk) IN
    IF signedLabel = NoLabel
    THEN Outcome("error", <<"Failed to delete label", "Failed to sign label">>,
                 NoLabel, <<>>, <<"find", "sign">>, coll, o)
    ELSE LET savedLabel == [unsignedLabel EXCEPT !.sig = signedLabel.sig]
             u == updateLabel(coll, id, savedLabel,
                              IF ins = "error" THEN "error" ELSE "done") IN
    IF ~u.ok
    THEN Outcome("error", <<"Failed to save negated label to database",
                            "Failed to save label">>,
                 NoLabel, <<>>, <<"find", "sign", "update">>, u.coll, o + 1)
    ELSE Outcome("ok", <<"", "">>, signedLabel, <<>>,
                 <<"find", "sign", "update">>, u.coll, o + 1)

\* LabelerServer.deleteLabel(id)
\* (first a deleteLabel whose inner catch blocks are missing, so that every
\* failure reaches the outer one)
deleteLabelOuterCatchOnly(coll, o, sg, id, dbOk, signOk, ins) ==
    IF sg = "failed"
    THEN Outcome("error", <<"Failed to delete label", "Failed to initialize signer">>,
                 NoLabel, <<>>, <<>>, coll, o)
    ELSE IF ~dbOk
    THEN Outcome("error", <<"Failed to delete label", "Failed to find label">>,
                 NoLabel, <<>>, <<"find">>, coll, o)
    ELSE LET label == findOne(coll, id) IN
    IF label = NoLabel
    THEN Outcome("null", <<"", "">>, NoLabel, <<>>, <<"find">>, coll, o)
    ELSE LET unsignedLabel == [label EXCEPT !.neg = "true"]
             signedLabel   == signLabel(unsignedLabel, sg, signOk) IN
    IF signedLabel = NoLabel
    THEN Outcome("error", <<"Failed to delete label", "Failed to sign label">>,
                 NoLabel, <<>>, <<"find", "sign">>, coll, o)
    ELSE LET savedLabel == [unsignedLabel EXCEPT !.sig = signedLabel.sig,
                                                 !._id = ObjectIdAt(o)]
             s == saveLabel(coll, savedLabel, o + 1, ins) IN
    IF ~s.ok
    THEN Outcome("error", <<"Failed to delete label", "Failed to save label">>,
                 NoLabel, <<>>, <<"find", "sign", "insert">>, s.coll, s.oid)
    ELSE Outcome("ok", <<"", "">>, signedLabel, <<>>,
                 <<"find", "sign", "insert">>, s.coll, s.oid)

deleteLabel(coll, o, sg, id, dbOk, signOk, ins) ==
    IF sg = "failed"
    THEN Outcome("error", <<"Failed to delete label", "Failed to initialize signer">>,
                 NoLabel, <<>>, <<>>, coll, o)
    ELSE IF ~dbOk
    THEN Outcome("error", <<"Failed to delete label", "Failed to find label">>,
                 NoLabel, <<>>, <<"find">>, coll, o)
    ELSE LET label == findOne(coll, id) IN
    IF label = NoLabel
    THEN Outcome("null", <<"", "">>, NoLabel, <<>>, <<"find">>, coll, o)
    ELSE LET unsignedLabel == [label EXCEPT !.neg = "true"]
             signedLabel   == signLabel(unsignedLabel, sg, signOk) IN
    IF signedLabel = NoLabel
    THEN Outcome("error", <<"Failed to delete label", "Failed to sign label">>,
                 NoLabel, <<>>, <<"find", "sign">>, coll, o)
    ELSE LET savedLabel == [unsignedLabel EXCEPT !.sig = signedLabel.sig,
                                                 !._id = ObjectIdAt(o)]
             s == saveLabel(coll, savedLabel, o + 1, ins) IN
    IF ~s.ok
    THEN Outcome("error", <<"Failed to save negated label to database",
                            "Failed to save label">>,
                 NoLabel, <<>>, <<"find", "sign", "insert">>, s.coll, s.oid)
    ELSE Outcome("ok", <<"", "">>, signedLabel, <<>>,
                 <<"find", "sign", "insert">>, s.coll, s.oid)

\* !label.neg
NotNeg(neg) == IF neg = "true" THEN "false" ELSE "true"

\* reverseLabelNegation that raises when no record is found
reverseLabelNegationRaisesNotFound(coll, o, sg, id, save, now, dbOk, signOk, upd) ==
    IF ~dbOk
    THEN Outcome("error", <<"Failed to reverse label negation", "Failed to find labels">>,
                 NoLabel, <<>>, <<"find">>, coll, o)
    ELSE LET found == findLabels(coll, [kind |-> "idEq", id |-> id, exp |-> Undef,
                                        allowExpired |-> FALSE], FALSE, 0, now) IN
    IF found = <<>>
    THEN Outcome("error", <<"Failed to reverse label negation", "Label not found">>,
                 NoLabel, <<>>, <<"find">>, coll, o)
    ELSE LET label         == found[1]
             unsignedLabel == [label EXCEPT !.neg = NotNeg(label.neg)]
             signedLabel   == signLabel(unsignedLabel, sg, signOk) IN
    IF signedLabel = NoLabel
    THEN Outcome("error", <<"Failed to reverse label negation", "Failed to sign label">>,
                 NoLabel, <<>>, <<"find">> \o signLabelCalls(sg), coll, o)
    ELSE IF ~save
    THEN Outcome("ok", <<"", "">>, signedLabel, <<>>, <<"find", "sign">>, coll, o)
    ELSE LET savedLabel == [unsignedLabel EXCEPT !.sig = signedLabel.sig,
                                                 !._id = ObjectIdAt(o)]
             u == updateLabel(coll, id, savedLabel, upd) IN
    IF ~u.ok
    THEN Outcome("error", <<"Failed to reverse label negation", "Failed to update label">>,
                 NoLabel, <<>>, <<"find", "sign", "update">>, u.coll, o + 1)
    ELSE Outcome("ok", <<"", "">>, signedLabel, <<>>,
                 <<"find", "sign", "update">>, u.coll, o + 1)

\* LabelerServer.reverseLabelNegation(id, save)
reverseLabelNegation(coll, o, sg, id, save, now, dbOk, signOk, upd) ==
    IF ~dbOk
    THEN Outcome("error", <<"Failed to reverse label negation", "Failed to find labels">>,
                 NoLabel, <<>>, <<"find">>, coll, o)
    ELSE LET found == findLabels(coll, [kind |-> "idEq", id |-> id, exp |-> Undef,
                                        allowExpired |-> FALSE], FALSE, 0, now) IN
    IF found = <<>>
    THEN Outcome("null", <<"", "">>, NoLabel, <<>>, <<"find">>, coll, o)
    ELSE LET label         == found[1]
             unsignedLabel == [label EXCEPT !.neg = NotNeg(label.neg)]
             signedLabel   == signLabel(unsignedLabel, sg, signOk) IN
    IF signedLabel = NoLabel
    THEN Outcome("error", <<"Failed to reverse label negation", "Failed to sign label">>,
                 NoLabel, <<>>, <<"find">> \o signLabelCalls(sg), coll, o)
    ELSE IF ~save
    THEN Outcome("ok", <<"", "">>, signedLabel, <<>>, <<"find", "sign">>, coll, o)
    ELSE LET savedLabel == [unsignedLabel EXCEPT !.sig = signedLabel.sig,
                                                 !._id = ObjectIdAt(o)]
             u == updateLabel(coll, id, savedLabel, upd) IN
    IF ~u.ok
    THEN Outcome("error", <<"Failed to reverse label negation", "Failed to update label">>,
                 NoLabel, <<>>, <<"find", "sign", "update">>, u.coll, o + 1)
    ELSE Outcome("ok", <<"", "">>, signedLabel, <<>>,
                 <<"find", "sign", "update">>, u.coll, o + 1)

\* LabelerServer.getLabelsAfterCursor(cursor, limit)
getLabelsAfterCursor(coll, o, sg, cursor, limit, now, dbOk) ==
    IF sg = "failed"
    THEN Outcome("error", <<"Failed to retrieve labels after cursor",
                            "Failed to initialize signer">>,
                 NoLabel, <<>>, <<>>, coll, o)
    ELSE IF ~dbOk
    THEN Outcome("error", <<"Failed to retrieve labels after cursor",
                            "Failed to find labels">>,
                 NoLabel, <<>>, <<"find">>, coll, o)
    ELSE LET found == findLabels(coll, [kind |-> "idGt", id |-> cursor, exp |-> Undef,
                                        allowExpired |-> FALSE], TRUE, limit, now)
         IN  Outcome("ok", <<"", "">>, NoLabel,
                     [i \in 1..Len(found) |-> withSigBytes(found[i])],
                     <<"find">>, coll, o)

\* ------------------------------------------------------------ behaviour
svars == <<labels, clock, oid, index, signer, last>>
cvars == <<sequenceValue, idLabels, pc, nextId, dupErrors>>
avars == <<calls, reversing>>
fvars == <<applied>>
dvars == <<connected, subs>>
vars  == <<labels, clock, oid, index, signer, last,
           sequenceValue, idLabels, pc, nextId, dupErrors, calls, applied,
           reversing, connected, subs>>

NotApplied == [fn |-> "none"]

Callers == 1..MaxCallers
IdleCall == [op |-> "none", pc |-> "idle", awaited |-> "none",
             startedPending |-> FALSE, signedWith |-> "none"]

\* no subscribeLabels request yet: no socket has asked, none is registered
Sockets == 1..MaxSockets
NoSocket == [pc |-> "none", cursor |-> 0, frames |-> <<>>, closed |-> FALSE]
NoSubs == [sock |-> [s \in Sockets |-> NoSocket], connections |-> {}]

\* no reverseLabelNegation call in progress and none settled yet; original
\* is the neg the record was created with
NotReversing == [pc |-> [c \in Callers |-> "idle"],
                 read |-> [c \in Callers |-> NoLabel],
                 signed |-> [c \in Callers |-> NoLabel],
                 completed |-> 0, original |-> "undef"]

Writers == 1..MaxWriters

\* Arguments tried by the callers.
BaseInput(now) ==
    [ver |-> 1, val |-> <<"s">>, uri |-> AT_POST, cid |-> <<CID_OK>>,
     neg |-> "undef", src |-> <<>>, cts |-> Undef, exp |-> Undef]

\* well-formed inputs: no exp, a future exp with and without neg, an exp
\* that is already reached, an account subject with a caller-supplied src
\* and a past cts, a content subject without cid, one with an empty cid
GoodInputs(now) ==
    { BaseInput(now),
      [BaseInput(now) EXCEPT !.exp = TsStr(now + 1, "alt"), !.neg = "false"],
      [BaseInput(now) EXCEPT !.exp = TsStr(now + 1, "iso"), !.neg = "true"],
      [BaseInput(now) EXCEPT !.exp = TsStr(now, "iso")],
      [BaseInput(now) EXCEPT !.uri = DID_USER, !.cid = <<>>,
                             !.src = <<DID_USER>>, !.cts = TsStr(now - 1, "alt")],
      [BaseInput(now) EXCEPT !.cid = <<>>, !.cts = TsStr(now, "iso")],
      [BaseInput(now) EXCEPT !.cid = << <<>> >>] }

\* inputs with one field wrong (ver 0 stands for a ver that is absent, the
\* second src is the empty string)
BadInputs(now) ==
    { [BaseInput(now) EXCEPT !.ver = 2],
      [BaseInput(now) EXCEPT !.ver = 0],
      [BaseInput(now) EXCEPT !.val = <<>>],
      [BaseInput(now) EXCEPT !.val = <<"s", "!">>],
      [BaseInput(now) EXCEPT !.uri = <<"h">>],
      [BaseInput(now) EXCEPT !.uri = DID_USER],
      [BaseInput(now) EXCEPT !.uri = DID_USER, !.cid = << <<"x">> >>],
      [BaseInput(now) EXCEPT !.cid = << <<"x">> >>],
      [BaseInput(now) EXCEPT !.src = << <<"x">> >>],
      [BaseInput(now) EXCEPT !.src = << <<>> >>],
      [BaseInput(now) EXCEPT !.cts = TsStr(now + 1, "iso")],
      [BaseInput(now) EXCEPT !.cts = TsStr(now, "bad")],
      [BaseInput(now) EXCEPT !.exp = TsStr(now, "bad")],
      [BaseInput(now) EXCEPT !.exp = TsStr(now - 1, "iso")] }

CreateInputs(now) == GoodInputs(now) \cup BadInputs(now)

QueryInputs(now) ==
    [exp : {Undef, TsStr(now, "iso"), TsStr(now + 1, "iso")},
     allowExpired : BOOLEAN]

\* The ids callers ask for: every stored id and one id that is not stored.
IdInputs == Ids(labels) \cup {ObjectIdAt(oid)}

\* The cursors callers pass: the zero ObjectId (before every record), the
\* id of a stored record (the last one of the page before), an id that is
\* not stored.
CursorInputs == {0} \cup IdInputs

\* What the collaborators do during a call: nothing goes wrong, the store
\* read fails, the signer fails, the write is done but not acknowledged,
\* the write fails.
Fates == {"ok", "find_error", "sign_error", "unacked", "write_error"}
SignOk(fate) == fate # "sign_error"
DbOk(fate)   == fate # "find_error"
InsFate(fate) == CASE fate = "unacked"     -> "unacked"
                   [] fate = "write_error" -> "error"
                   [] OTHER                -> "acked"
UpdFate(fate) == IF fate = "write_error" THEN "error" ELSE "done"

\* no data: the argument record of a call that takes none
NoData == [ver |-> 0, val |-> <<>>, uri |-> <<>>, cid |-> <<>>,
           neg |-> "undef", src |-> <<>>, cts |-> Undef, exp |-> Undef]

NoCall == [op |-> "none", id |-> 0, limit |-> 0, flag |-> FALSE, now |-> 0,
           data |-> NoData, fate |-> "ok", before |-> <<>>,
           connected |-> TRUE,
           outcome |-> "ok", msg |-> <<"", "">>, result |-> NoLabel,
           results |-> <<>>, trace |-> <<>>]

\* flag is allowExpired (createLabel, queryLabels) or save
\* (reverseLabelNegation); id is the id or the cursor; data is the data of
\* createLabel or the query of queryLabels.
Call(op, id, limit, flag, fate, r) ==
    [op |-> op, id |-> id, limit |-> limit, flag |-> flag, now |-> clock,
     data |-> NoData, fate |-> fate, before |-> labels,
     connected |-> connected,
     outcome |-> r.outcome, msg |-> r.msg, result |-> r.result,
     results |-> r.results, trace |-> r.trace]

\* The server is constructed and its connect() has completed: the operations
\* act on the 'labels' collection.  Constructed (below) is the server before
\* connect().
Init ==
    /\ labels = <<>>
    /\ clock = 1
    /\ oid = 0
    /\ index \in IndexStarts
    /\ signer = "pending"
    /\ last = NoCall
    /\ sequenceValue = 0
    /\ idLabels = <<>>
    /\ pc = [w \in Writers |-> "idle"]
    /\ nextId = [w \in Writers |-> 0]
    /\ dupErrors = 0
    /\ calls = [c \in Callers |-> IdleCall]
    /\ reversing = NotReversing
    /\ connected = TRUE
    /\ subs = NoSubs
    /\ applied = NotApplied

\* Secp256k1Keypair.import(signingKey) settles.
ImportResolves ==
    /\ signer = "pending"
    /\ signer' = "ready"
    /\ UNCHANGED <<labels, clock, oid, index, last>>
    /\ UNCHANGED cvars
    /\ UNCHANGED avars
    /\ UNCHANGED fvars
    /\ UNCHANGED dvars

ImportFails ==
    /\ signer = "pending"
    /\ signer' = "failed"
    /\ UNCHANGED <<labels, clock, oid, index, last>>
    /\ UNCHANGED cvars
    /\ UNCHANGED avars
    /\ UNCHANGED fvars
    /\ UNCHANGED dvars

Tick ==
    /\ clock < MaxClock
    /\ clock' = clock + 1
    /\ UNCHANGED <<labels, oid, index, signer, last>>
    /\ UNCHANGED cvars
    /\ UNCHANGED avars
    /\ UNCHANGED fvars
    /\ UNCHANGED dvars

CreateLabel ==
    /\ signer # "pending"
    /\ Len(labels) < MaxLabels
    /\ oid + 2 <= MaxOid
    /\ \E data \in CreateInputs(clock), allowExpired \in BOOLEAN,
          fate \in Fates \ {"find_error"} :
         \* a call stopped by the failed import or by validation never
         \* reaches the collaborators
         /\ (\/ signer = "failed"
             \/ createLabelValidation(data, allowExpired, clock) # "ok")
               => fate = "ok"
         \* allowExpired only bears on an exp: it is passed with every
         \* input that has one, and with the plain input
         /\ allowExpired => (Truthy(data.exp) \/ data = BaseInput(clock))
         \* a collaborator fails whatever the data are: failures are
         \* tried with the plain input and with one that has an exp
         /\ fate # "ok" => data \in {BaseInput(clock),
                                     [BaseInput(clock) EXCEPT !.exp = TsStr(clock, "iso")]}
         /\ LET r == createLabel(labels, oid, signer, data, allowExpired, clock,
                                 SignOk(fate), InsFate(fate))
            IN  /\ labels' = r.labels
                /\ oid' = r.oid
                /\ last' = [Call("createLabel", 0, 0, allowExpired, fate, r)
                             EXCEPT !.data = data]
    /\ UNCHANGED <<clock, index, signer>>
    /\ UNCHANGED cvars
    /\ UNCHANGED avars
    /\ UNCHANGED fvars
    /\ UNCHANGED dvars

QueryLabels ==
    /\ signer # "pending"
    /\ \E query \in QueryInputs(clock) :
         LET r == queryLabels(labels, oid, signer, query, clock, TRUE)
         IN  last' = [Call("queryLabels", 0, 0, query.allowExpired, "ok", r)
                        EXCEPT !.data = [NoData EXCEPT !.exp = query.exp]]
    /\ UNCHANGED <<labels, clock, oid, index, signer>>
    /\ UNCHANGED cvars
    /\ UNCHANGED avars
    /\ UNCHANGED fvars
    /\ UNCHANGED dvars

QueryLabel ==
    /\ signer # "pending"
    /\ \E id \in IdInputs :
         LET r == queryLabel(labels, oid, signer, id, TRUE)
         IN  last' = Call("queryLabel", id, 0, FALSE, "ok", r)
    /\ UNCHANGED <<labels, clock, oid, index, signer>>
    /\ UNCHANGED cvars
    /\ UNCHANGED avars
    /\ UNCHANGED fvars
    /\ UNCHANGED dvars

DeleteLabel ==
    /\ signer # "pending"
    /\ Len(labels) < MaxLabels
    /\ oid + 2 <= MaxOid
    /\ \E id \in IdInputs, fate \in Fates :
         \* the signer and the insert are reached only for a stored id
         /\ signer = "failed" => fate = "ok"
         /\ id \notin Ids(labels) => fate \in {"ok", "find_error"}
         /\ LET r == deleteLabel(labels, oid, signer, id, DbOk(fate), SignOk(fate),
                                 InsFate(fate))
            IN  /\ labels' = r.labels
                /\ oid' = r.oid
                /\ last' = Call("deleteLabel", id, 0, FALSE, fate, r)
    /\ UNCHANGED <<clock, index, signer>>
    /\ UNCHANGED cvars
    /\ UNCHANGED avars
    /\ UNCHANGED fvars
    /\ UNCHANGED dvars

ReverseLabelNegation ==
    /\ signer # "pending"
    /\ \E id \in IdInputs, save \in BOOLEAN, fate \in Fates \ {"unacked"} :
         /\ save => oid + 1 <= MaxOid
         \* the signer is reached only for a stored id, the update only
         \* when saving
         /\ id \notin Ids(labels) => fate \in {"ok", "find_error"}
         /\ fate = "write_error" => save
         /\ LET r == reverseLabelNegation(labels, oid, signer, id, save, clock,
                                          DbOk(fate), SignOk(fate), UpdFate(fate))
            IN  /\ labels' = r.labels
                /\ oid' = r.oid
                /\ last' = Call("reverseLabelNegation", id, 0, save, fate, r)
    /\ UNCHANGED <<clock, index, signer>>
    /\ UNCHANGED cvars
    /\ UNCHANGED avars
    /\ UNCHANGED fvars
    /\ UNCHANGED dvars

GetLabelsAfterCursor ==
    /\ signer # "pending"
    /\ \E cursor \in CursorInputs, limit \in 0..MaxLimit :
         LET r == getLabelsAfterCursor(labels, oid, signer, cursor, limit, clock, TRUE)
         IN  last' = Call("getLabelsAfterCursor", cursor, limit, FALSE, "ok", r)
    /\ UNCHANGED <<labels, clock, oid, index, signer>>
    /\ UNCHANGED cvars
    /\ UNCHANGED avars
    /\ UNCHANGED fvars
    /\ UNCHANGED dvars

Next ==
    \/ ImportResolves
    \/ ImportFails
    \/ Tick
    \/ CreateLabel
    \/ QueryLabels
    \/ QueryLabel
    \/ DeleteLabel
    \/ ReverseLabelNegation
    \/ GetLabelsAfterCursor

Spec == Init /\ [][Next]_vars

\* ------------------------------------------------ the counter-based store
\* MongoDBClient (counter ids): saveLabel = _getNextId, then insertOne into
\* a collection with a unique index on id.  Each caller is a concurrent
\* saveLabel call; the two store calls are its suspension points.

\* _getNextId: findOneAndUpdate({_id: 'labelId'}, {$inc: {sequenceValue: 1}},
\* {upsert: true, returnDocument: 'after'}) is one atomic store operation;
\* it returns the counter after the increment.
getNextIdReadsHighest(seq, stored) ==
    [id  |-> IF stored = <<>> THEN 1
             ELSE (CHOOSE m \in {stored[i] : i \in 1..Len(stored)} :
                     \A i \in 1..Len(stored) : stored[i] <= m) + 1,
     seq |-> seq + 1]

getNextId(seq, stored) == [id |-> seq + 1, seq |-> seq + 1]

GetNextId(w) ==
    /\ pc[w] = "idle"
    /\ sequenceValue < MaxSeq
    /\ LET r == getNextId(sequenceValue, idLabels)
       IN  /\ sequenceValue' = r.seq
           /\ nextId' = [nextId EXCEPT ![w] = r.id]
    /\ pc' = [pc EXCEPT ![w] = "insert"]
    /\ UNCHANGED <<idLabels, dupErrors>>
    /\ UNCHANGED svars
    /\ UNCHANGED avars
    /\ UNCHANGED fvars
    /\ UNCHANGED dvars

\* insertOne(savedLabel): refused when the id is already stored
InsertLabel(w) ==
    /\ pc[w] = "insert"
    /\ IF \E i \in 1..Len(idLabels) : idLabels[i] = nextId[w]
       THEN /\ dupErrors' = dupErrors + 1
            /\ UNCHANGED idLabels
       ELSE /\ idLabels' = Append(idLabels, nextId[w])
            /\ UNCHANGED dupErrors
    /\ pc' = [pc EXCEPT ![w] = "idle"]
    /\ UNCHANGED <<sequenceValue, nextId>>
    /\ UNCHANGED svars
    /\ UNCHANGED avars
    /\ UNCHANGED fvars
    /\ UNCHANGED dvars

\* insertOne fails for another reason (connection lost): nothing is stored
InsertFails(w) ==
    /\ pc[w] = "insert"
    /\ pc' = [pc EXCEPT ![w] = "idle"]
    /\ UNCHANGED <<sequenceValue, idLabels, nextId, dupErrors>>
    /\ UNCHANGED svars
    /\ UNCHANGED avars
    /\ UNCHANGED fvars
    /\ UNCHANGED dvars

NextCounter ==
    \/ \E w \in Writers : GetNextId(w)
    \/ \E w \in Writers : InsertLabel(w)
    \/ \E w \in Writers : InsertFails(w)

SpecCounter == Init /\ [][NextCounter]_vars

\* ------------------------------------------- calls and the signer import
\* The constructor starts Secp256k1Keypair.import and keeps its promise in
\* _initializeSigner; the then-handler sets _signer, the catch-handler sets
\* _initializationError and rejects.  Every operation but
\* reverseLabelNegation begins with "await this.getInitializationPromise()"
\* (reverseLabelNegation begins with the store read), and _signLabel
\* awaits it before it calls this._signer.sign.  Each caller below is one call in progress;
\* the awaits are its suspension points.

\* getInitializationPromise(): throws _initializationError when it is set,
\* otherwise returns the import's promise (pending or settled).
getInitializationPromiseResolved(sg) ==
    IF sg = "failed" THEN "throw" ELSE "resolved"

getInitializationPromise(sg) ==
    IF sg = "failed" THEN "throw" ELSE "promise"

Operations == {"createLabel", "queryLabels", "queryLabel", "deleteLabel",
               "reverseLabelNegation", "getLabelsAfterCursor"}
\* the operations that call _signLabel
SigningOperations == {"createLabel", "deleteLabel", "reverseLabelNegation"}

\* the awaited value lets the call continue: an already resolved value
\* and the store's answer do whatever the import does, the import's promise
\* does once the import has settled
AwaitSettled(call) == call.awaited \in {"resolved", "find"} \/ signer # "pending"
\* the await throws: the import's promise was rejected
AwaitRejects(call) == call.awaited = "promise" /\ signer = "failed"

\* an operation is called and runs up to its first await:
\* this.db.findLabels in reverseLabelNegation, this.getInitializationPromise()
\* in the others
StartCall(c) ==
    /\ calls[c].pc = "idle"
    /\ \E op \in Operations :
         LET p == IF op = "reverseLabelNegation" THEN "find"
                  ELSE getInitializationPromise(signer) IN
         calls' = [calls EXCEPT ![c] =
                     IF p = "throw"
                     THEN [IdleCall EXCEPT !.op = op, !.pc = "failed"]
                     ELSE [IdleCall EXCEPT !.op = op, !.pc = "awaitFirst",
                                           !.awaited = p,
                                           !.startedPending = (signer = "pending")]]
    /\ UNCHANGED svars
    /\ UNCHANGED cvars
    /\ UNCHANGED fvars
    /\ UNCHANGED dvars
    /\ UNCHANGED reversing

\* the operation continues after its await: it fails when the import did,
\* otherwise it runs up to its _signLabel call, or to its end when it makes
\* none (a reading operation, an id that is not stored)
ResumeCall(c) ==
    /\ calls[c].pc = "awaitFirst"
    /\ AwaitSettled(calls[c])
    /\ \E signs \in BOOLEAN :
         /\ signs => calls[c].op \in SigningOperations
         /\ calls[c].op = "createLabel" => signs
         /\ calls' = [calls EXCEPT ![c].pc =
                        IF AwaitRejects(calls[c]) THEN "failed"
                        ELSE IF signs THEN "signLabel" ELSE "done"]
    /\ UNCHANGED svars
    /\ UNCHANGED cvars
    /\ UNCHANGED fvars
    /\ UNCHANGED dvars
    /\ UNCHANGED reversing

\* _signLabel: await this.getInitializationPromise()
EnterSignLabel(c) ==
    /\ calls[c].pc = "signLabel"
    /\ LET p == getInitializationPromise(signer) IN
       calls' = [calls EXCEPT ![c].pc = IF p = "throw" THEN "failed" ELSE "awaitSign",
                              ![c].awaited = p]
    /\ UNCHANGED svars
    /\ UNCHANGED cvars
    /\ UNCHANGED fvars
    /\ UNCHANGED dvars
    /\ UNCHANGED reversing

\* _signLabel: this._signer.sign(...), with whatever _signer holds then
InvokeSigner(c) ==
    /\ calls[c].pc = "awaitSign"
    /\ AwaitSettled(calls[c])
    /\ calls' = [calls EXCEPT ![c].pc = IF AwaitRejects(calls[c]) THEN "failed"
                                        ELSE "done",
                              ![c].signedWith = IF AwaitRejects(calls[c]) THEN "none"
                                                ELSE signer]
    /\ UNCHANGED svars
    /\ UNCHANGED cvars
    /\ UNCHANGED fvars
    /\ UNCHANGED dvars
    /\ UNCHANGED reversing

\* the call has returned or thrown; the caller may call again
ReturnCall(c) ==
    /\ calls[c].pc \in {"done", "failed"}
    /\ calls' = [calls EXCEPT ![c] = IdleCall]
    /\ UNCHANGED svars
    /\ UNCHANGED cvars
    /\ UNCHANGED fvars
    /\ UNCHANGED dvars
    /\ UNCHANGED reversing

NextAwait ==
    \/ ImportResolves
    \/ ImportFails
    \/ \E c \in Callers : StartCall(c)
    \/ \E c \in Callers : ResumeCall(c)
    \/ \E c \in Callers : EnterSignLabel(c)
    \/ \E c \in Callers : InvokeSigner(c)
    \/ \E c \in Callers : ReturnCall(c)

\* The import settles, and a continuation that can run is run.
SpecAwait ==
    /\ Init
    /\ [][NextAwait]_vars
    /\ WF_vars(ImportResolves \/ ImportFails)
    /\ \A c \in Callers :
         /\ WF_vars(ResumeCall(c))
         /\ WF_vars(EnterSignLabel(c))
         /\ WF_vars(InvokeSigner(c))

\* --------------------------------------------------- util/labels.ts
\* A sig as formatLabel may be handed one: [shape, bytes, str].  shape is
\* "Uint8Array" (bytes: the byte values; a Buffer is one too), "$bytes" (an
\* object with a $bytes key, str: its string), "object" (an object without
\* that key, an ArrayBuffer for instance), "undefined" or "null".
SigOf(shape, bytes, str) == [shape |-> shape, bytes |-> bytes, str |-> str]

\* the base64 alphabet of Buffer.toString('base64')
Base64Chars ==
    <<"A","B","C","D","E","F","G","H","I","J","K","L","M","N","O","P",
      "Q","R","S","T","U","V","W","X","Y","Z","a","b","c","d","e","f",
      "g","h","i","j","k","l","m","n","o","p","q","r","s","t","u","v",
      "w","x","y","z","0","1","2","3","4","5","6","7","8","9","+","/">>

\* Buffer.from(bytes).toString('base64'): three bytes give four characters,
\* a last group of one or two bytes is padded with '='.
RECURSIVE toBase64(_)
toBase64(bytes) ==
    IF bytes = <<>> THEN <<>>
    ELSE IF Len(bytes) = 1
    THEN << Base64Chars[(bytes[1] \div 4) + 1],
            Base64Chars[((bytes[1] % 4) * 16) + 1], "=", "=" >>
    ELSE IF Len(bytes) = 2
    THEN << Base64Chars[(bytes[1] \div 4) + 1],
            Base64Chars[((bytes[1] % 4) * 16 + bytes[2] \div 16) + 1],
            Base64Chars[((bytes[2] % 16) * 4) + 1], "=" >>
    ELSE << Base64Chars[(bytes[1] \div 4) + 1],
            Base64Chars[((bytes[1] % 4) * 16 + bytes[2] \div 16) + 1],
            Base64Chars[((bytes[2] % 16) * 4 + bytes[3] \div 64) + 1],
            Base64Chars[(bytes[3] % 64) + 1] >>
         \o toBase64(SubSeq(bytes, 4, Len(bytes)))

\* excludeNullish(obj): obj without the keys that hold null or undefined;
\* false, 0, '' and objects stay.  Of the keys kept here only sig can be
\* nullish.
excludeNullish(obj) ==
    IF obj.sig.shape \in {"undefined", "null"}
    THEN [obj EXCEPT !.sig = SigOf("undefined", <<>>, <<>>)]
    ELSE obj

\* formatLabel(label): [threw, label].  label is [ver, neg, sig]; the other
\* keys are spread unchanged.
formatLabelDropsPadding(label) ==
    LET b64 == toBase64(label.sig.bytes)
        sig == IF label.sig.shape = "Uint8Array"
               THEN SigOf("$bytes", <<>>, SelectSeq(b64, LAMBDA ch : ch # "="))
               ELSE label.sig
    IN
    IF sig.shape # "$bytes"
    THEN [threw |-> TRUE, label |-> label]
    ELSE [threw |-> FALSE,
          label |-> excludeNullish([label EXCEPT !.ver = 1,
                                                 !.neg = (label.neg = "true"),
                                                 !.sig = sig])]

formatLabel(label) ==
    LET sig == IF label.sig.shape = "Uint8Array"
               THEN SigOf("$bytes", <<>>, toBase64(label.sig.bytes))
               ELSE label.sig
    IN
    \* !sig || !("$bytes" in sig)
    IF sig.shape # "$bytes"
    THEN [threw |-> TRUE, label |-> label]
    ELSE [threw |-> FALSE,
          label |-> excludeNullish([label EXCEPT !.ver = 1,
                                                 !.neg = (label.neg = "true"),
                                                 !.sig = sig])]

\* The signatures tried: every byte sequence up to MaxSigLen over a few byte
\* values, the wrapped form of each of them and of two strings that are not
\* base64, and the shapes that are neither.
SigByteValues == {0, 1, 127, 255}
RECURSIVE ByteSeqs(_)
ByteSeqs(n) ==
    IF n = 0 THEN {<<>>}
    ELSE ByteSeqs(n - 1)
         \cup {Append(b, v) : b \in {q \in ByteSeqs(n - 1) : Len(q) = n - 1},
                              v \in SigByteValues}
SigInputs ==
    {SigOf("Uint8Array", b, <<>>) : b \in ByteSeqs(MaxSigLen)}
    \cup {SigOf("$bytes", <<>>, toBase64(b)) : b \in ByteSeqs(MaxSigLen)}
    \cup {SigOf("$bytes", <<>>, str) : str \in {<<"*">>, <<"A">>}}
    \cup {SigOf(shape, <<>>, <<>>) : shape \in {"object", "undefined", "null"}}

FormatLabel ==
    /\ applied = NotApplied
    /\ \E sig \in SigInputs, ver \in {0, 1, 2}, neg \in {"undef", "true", "false"} :
         LET label == [ver |-> ver, neg |-> neg, sig |-> sig] IN
         applied' = [fn |-> "formatLabel", arg |-> label, out |-> formatLabel(label)]
    /\ UNCHANGED svars
    /\ UNCHANGED cvars
    /\ UNCHANGED avars
    /\ UNCHANGED dvars

NextFormat == FormatLabel

SpecFormat == Init /\ [][NextFormat]_vars

\* --------------------------------------------- util/validators.ts alone
\* The label values tried: every string up to MaxValLen over a letter, the
\* system-label marker, two of the listed punctuation characters and a
\* blank.
ValChars == {"a", "!", ".", "_", " "}
RECURSIVE ValStrings(_)
ValStrings(n) ==
    IF n = 0 THEN {<<>>}
    ELSE ValStrings(n - 1)
         \cup {Append(v, ch) : v \in {q \in ValStrings(n - 1) : Len(q) = n - 1},
                               ch \in ValChars}

ValidateVal ==
    /\ applied = NotApplied
    /\ \E val \in ValStrings(MaxValLen) :
         applied' = [fn |-> "validateVal", arg |-> val, out |-> validateVal(val)]
    /\ UNCHANGED svars
    /\ UNCHANGED cvars
    /\ UNCHANGED avars
    /\ UNCHANGED dvars

NextVal == ValidateVal

SpecVal == Init /\ [][NextVal]_vars

\* ------------------------------------- createLabels on the highest-id store
\* The earlier LabelerServer (part_013) and MongoDBClient (part_012):
\* createLabels(subject, {create, negate}) is Promise.all over one
\* createLabel per value; createLabel awaits the signer and then
\* db.saveLabel; saveLabel awaits _getNextId, which reads the stored label
\* with the highest id, and then insertOne into the collection with its
\* unique index on id.  Callers 1..n are the createLabel calls of one
\* createLabels; the awaits are their suspension points.  The ids live in
\* idLabels, each call's position in pc, its id in nextId.

\* _getNextId: (lastLabel?.id ?? 0) + 1, lastLabel the stored label with the
\* highest id
highestId(stored) ==
    IF stored = <<>> THEN 0
    ELSE CHOOSE m \in {stored[i] : i \in 1..Len(stored)} :
            \A i \in 1..Len(stored) : stored[i] <= m
getNextIdOfHighest(stored) == highestId(stored) + 1

NoCallInProgress == \A w \in Writers : pc[w] \in {"idle", "resolved", "rejected"}

\* createLabels with n values: n createLabel calls are started, each runs
\* up to its await of the signer
CreateLabels ==
    /\ NoCallInProgress
    /\ \E n \in 1..MaxWriters :
         /\ Len(idLabels) + n <= MaxSeq
         /\ pc' = [w \in Writers |-> IF w <= n THEN "signing" ELSE "idle"]
    /\ nextId' = [w \in Writers |-> 0]
    /\ UNCHANGED <<sequenceValue, idLabels, dupErrors>>
    /\ UNCHANGED svars
    /\ UNCHANGED avars
    /\ UNCHANGED fvars
    /\ UNCHANGED dvars

\* the signer has answered: createLabel calls saveLabel, which starts
\* _getNextId
SignerAnswers(w) ==
    /\ pc[w] = "signing"
    /\ pc' = [pc EXCEPT ![w] = "reading"]
    /\ UNCHANGED <<sequenceValue, idLabels, nextId, dupErrors>>
    /\ UNCHANGED svars
    /\ UNCHANGED avars
    /\ UNCHANGED fvars
    /\ UNCHANGED dvars

\* the store answers findOne({}, {sort: {id: -1}}); saveLabel starts insertOne
ReadHighest(w) ==
    /\ pc[w] = "reading"
    /\ nextId' = [nextId EXCEPT ![w] = getNextIdOfHighest(idLabels)]
    /\ pc' = [pc EXCEPT ![w] = "inserting"]
    /\ UNCHANGED <<sequenceValue, idLabels, dupErrors>>
    /\ UNCHANGED svars
    /\ UNCHANGED avars
    /\ UNCHANGED fvars
    /\ UNCHANGED dvars

\* the store answers insertOne: a duplicate id is refused and saveLabel
\* throws 'Failed to save label', so this createLabel rejects
InsertWithId(w) ==
    /\ pc[w] = "inserting"
    /\ IF \E i \in 1..Len(idLabels) : idLabels[i] = nextId[w]
       THEN /\ dupErrors' = dupErrors + 1
            /\ pc' = [pc EXCEPT ![w] = "rejected"]
            /\ UNCHANGED idLabels
       ELSE /\ idLabels' = Append(idLabels, nextId[w])
            /\ pc' = [pc EXCEPT ![w] = "resolved"]
            /\ UNCHANGED dupErrors
    /\ UNCHANGED <<sequenceValue, nextId>>
    /\ UNCHANGED svars
    /\ UNCHANGED avars
    /\ UNCHANGED fvars
    /\ UNCHANGED dvars

NextCreateLabels ==
    \/ CreateLabels
    \/ \E w \in Writers : SignerAnswers(w)
    \/ \E w \in Writers : ReadHighest(w)
    \/ \E w \in Writers : InsertWithId(w)

SpecCreateLabels == Init /\ [][NextCreateLabels]_vars


\* ------------------------------- reverseLabelNegation(id, true), step by step
\* Each await of reverseLabelNegation is a point where another call can
\* run: the lookup (findLabels), the signature (_signLabel, which itself
\* awaits the import), the update (updateLabel).

\* a label with a future exp is created: the record the calls are about
ReversibleInputs(now) ==
    { [BaseInput(now) EXCEPT !.exp = TsStr(now + 1, "alt"), !.neg = "false"],
      [BaseInput(now) EXCEPT !.exp = TsStr(now + 1, "iso"), !.neg = "true"] }

CreateReversible ==
    /\ signer = "ready"
    /\ labels = <<>>
    /\ \E data \in ReversibleInputs(clock) :
         LET r == createLabel(labels, oid, signer, data, FALSE, clock, TRUE, "acked")
         IN  /\ labels' = r.labels
             /\ oid' = r.oid
             /\ reversing' = [reversing EXCEPT !.original = r.labels[1].neg]
    /\ UNCHANGED <<clock, index, signer, last, calls>>
    /\ UNCHANGED cvars
    /\ UNCHANGED fvars
    /\ UNCHANGED dvars

ReverseInFlight == { c \in Callers : reversing.pc[c] \in {"signing", "updating"} }

ReverseSettled(c) == reversing.pc[c] \in {"idle", "null", "returned", "raised"}

\* const labels = await this.db.findLabels({ _id: id }); if nothing is
\* found the call returns null
ReverseLookup(c) ==
    /\ ReverseSettled(c)
    /\ labels # <<>>
    \* every call that is let in finds an ObjectId left for its update
    /\ oid + Cardinality(ReverseInFlight) + 1 <= MaxOid
    /\ LET found == findLabels(labels, [kind |-> "idEq", id |-> labels[1]._id,
                                        exp |-> Undef, allowExpired |-> FALSE],
                               FALSE, 0, clock)
       IN  reversing' =
             IF found = <<>>
             THEN [reversing EXCEPT !.pc[c] = "null", !.read[c] = NoLabel,
                                    !.signed[c] = NoLabel]
             ELSE [reversing EXCEPT !.pc[c] = "signing", !.read[c] = found[1],
                                    !.signed[c] = NoLabel]
    /\ UNCHANGED svars
    /\ UNCHANGED cvars
    /\ UNCHANGED calls
    /\ UNCHANGED fvars
    /\ UNCHANGED dvars

\* const unsignedLabel = { ...label, neg: !label.neg };
\* const signedLabel = await this._signLabel(unsignedLabel);
ReverseSign(c) ==
    /\ reversing.pc[c] = "signing"
    /\ signer # "pending"
    /\ LET label         == reversing.read[c]
           unsignedLabel == [label EXCEPT !.neg = NotNeg(label.neg)]
           signedLabel   == signLabel(unsignedLabel, signer, TRUE)
       IN  reversing' =
             IF signedLabel = NoLabel
             THEN [reversing EXCEPT !.pc[c] = "raised",
                                    !.completed = reversing.completed + 1]
             ELSE [reversing EXCEPT !.pc[c] = "updating",
                                    !.signed[c] = signedLabel]
    /\ UNCHANGED svars
    /\ UNCHANGED cvars
    /\ UNCHANGED calls
    /\ UNCHANGED fvars
    /\ UNCHANGED dvars

\* const savedLabel = { ...unsignedLabel, sig: signedLabel.sig,
\*                      _id: new ObjectId() };
\* await this.db.updateLabel(id, savedLabel);
ReverseUpdate(c) ==
    /\ reversing.pc[c] = "updating"
    /\ LET signedLabel == reversing.signed[c]
           savedLabel  == [signedLabel EXCEPT !._id = ObjectIdAt(oid)]
           u == updateLabel(labels, reversing.read[c]._id, savedLabel, "done")
       IN  /\ labels' = u.coll
           /\ reversing' = [reversing EXCEPT
                               !.pc[c] = IF u.ok THEN "returned" ELSE "raised",
                               !.completed = reversing.completed + 1]
    /\ oid' = oid + 1
    /\ UNCHANGED <<clock, index, signer, last, calls>>
    /\ UNCHANGED cvars
    /\ UNCHANGED fvars
    /\ UNCHANGED dvars

NextReverse ==
    \/ ImportResolves
    \/ ImportFails
    \/ Tick
    \/ CreateReversible
    \/ \E c \in Callers : ReverseLookup(c)
    \/ \E c \in Callers : ReverseSign(c)
    \/ \E c \in Callers : ReverseUpdate(c)

SpecReverse == Init /\ [][NextReverse]_vars


\* ------------------------------------------- the bytes that are signed
\* Here a JavaScript object is the sequence of its [k, v] entries in key
\* order (the order JSON.stringify and the spread follow), and a value is
\* the text of a literal.
LabelKeys == {"ver", "val", "uri", "cid", "neg", "src", "cts", "exp"}

\* the values tried for each key: what its type allows, and for the
\* optional ones null, undefined and values of another type
JsValues(k) ==
    CASE k = "ver" -> {"1", "0"}
      [] k = "neg" -> {"true", "false", "null", "undefined"}
      [] k = "val" -> {"'x'", "''"}
      [] k = "uri" -> {"'x'"}
      [] k = "cid" -> {"'x'", "''", "0", "null", "undefined"}
      [] k = "src" -> {"'x'", "undefined"}
      [] k = "cts" -> {"'x'", "null"}
      [] k = "exp" -> {"'x'", "false", "null", "undefined"}

KeysOf(obj) == { obj[i].k : i \in 1..Len(obj) }
HasKey(obj, k) == k \in KeysOf(obj)

\* obj[k]
Get(obj, k) ==
    IF HasKey(obj, k)
    THEN obj[CHOOSE i \in 1..Len(obj) : obj[i].k = k].v
    ELSE "undefined"

\* { ...obj, [k]: v }: a key the object has keeps its place
Assign(obj, k, v) ==
    IF HasKey(obj, k)
    THEN [i \in 1..Len(obj) |-> IF obj[i].k = k THEN [k |-> k, v |-> v] ELSE obj[i]]
    ELSE Append(obj, [k |-> k, v |-> v])

Nullish(v) == v \in {"undefined", "null"}
Falsy(v) == v \in {"undefined", "null", "false", "0", "''"}

\* !!v
NotNot(v) == IF Falsy(v) THEN "false" ELSE "true"

\* a ?? b
Coalesce(a, b) == IF Nullish(a) THEN b ELSE a

\* excludeNullish on an object given by its entries: the entries whose
\* value is neither null nor undefined, in their order
excludeNullishEntries(obj) == SelectSeq(obj, LAMBDA e : ~Nullish(e.v))

\* JSON.stringify(obj): the entries in key order, those holding undefined
\* left out
JSONstringifyEntries(obj) == SelectSeq(obj, LAMBDA e : e.v # "undefined")

formatLabelCborKeepsNull(label) ==
    Assign(Assign(label, "ver", "1"), "neg", NotNot(Get(label, "neg")))

formatLabelCbor(label) ==
    excludeNullishEntries(
        Assign(Assign(label, "ver", "1"), "neg", NotNot(Get(label, "neg"))))

\* signLabel(label, signingKey) of util/labels.ts: [toSign, bytes]
utilSignLabel(label) ==
    LET toSign == formatLabelCbor(label)
    IN  [toSign |-> toSign, bytes |-> JSONstringifyEntries(toSign)]

\* the object literal createLabel hands to _signLabel, and its bytes
createLabelBytes(data) ==
    LET cts == Coalesce(Get(data, "cts"), "now")
        unsignedLabel ==
            << [k |-> "ver", v |-> "1"],
               [k |-> "val", v |-> Get(data, "val")],
               [k |-> "uri", v |-> Get(data, "uri")] >>
            \o (IF Falsy(Get(data, "cid")) THEN <<>>
                ELSE << [k |-> "cid", v |-> Get(data, "cid")] >>)
            \o (IF Falsy(Get(data, "neg")) THEN <<>>
                ELSE << [k |-> "neg", v |-> "true"] >>)
            \o << [k |-> "exp", v |-> Get(data, "exp")],
                  [k |-> "cts", v |-> cts],
                  [k |-> "src", v |-> Coalesce(Get(data, "src"), "did")] >>
    IN  [toSign |-> unsignedLabel, bytes |-> JSONstringifyEntries(unsignedLabel)]

\* the objects tried: up to MaxFields of the label keys, in every order,
\* with every value tried for each key
RECURSIVE ObjectsOfLen(_)
ObjectsOfLen(n) ==
    IF n = 0 THEN {<<>>}
    ELSE UNION { UNION { { Append(o, [k |-> k, v |-> v]) : v \in JsValues(k) } :
                         k \in LabelKeys \ KeysOf(o) } :
                 o \in ObjectsOfLen(n - 1) }

LabelObjects == UNION { ObjectsOfLen(n) : n \in 0..MaxFields }

SignLabel ==
    /\ applied = NotApplied
    /\ \E label \in LabelObjects :
         applied' = [fn |-> "signLabel", arg |-> label, out |-> utilSignLabel(label)]
    /\ UNCHANGED svars
    /\ UNCHANGED cvars
    /\ UNCHANGED avars
    /\ UNCHANGED dvars

\* createLabel gets this far only with data.ver === 1
CreateLabelBytes ==
    /\ applied = NotApplied
    /\ \E data \in LabelObjects :
         /\ Get(data, "ver") = "1"
         /\ applied' = [fn |-> "createLabel", arg |-> data, out |-> createLabelBytes(data)]
    /\ UNCHANGED svars
    /\ UNCHANGED cvars
    /\ UNCHANGED avars
    /\ UNCHANGED dvars

NextSign ==
    \/ SignLabel
    \/ CreateLabelBytes

SpecSign == Init /\ [][NextSign]_vars


\* ------------------------------------------------- before connect()
\* The constructor creates the MongoDBClient and does not connect it:
\* _labels is unset until connect() has run.
Constructed ==
    /\ labels = <<>>
    /\ clock = 1
    /\ oid = 0
    /\ index \in IndexStarts
    /\ signer = "pending"
    /\ last = NoCall
    /\ sequenceValue = 0
    /\ idLabels = <<>>
    /\ pc = [w \in Writers |-> "idle"]
    /\ nextId = [w \in Writers |-> 0]
    /\ dupErrors = 0
    /\ calls = [c \in Callers |-> IdleCall]
    /\ reversing = NotReversing
    /\ connected = FALSE
    /\ subs = NoSubs
    /\ applied = NotApplied

\* MongoDBClient.findLabels: if (!this._labels) return [];
clientFindLabels(conn, coll, q, sorted, limit, now, o) ==
    IF ~conn THEN Outcome("ok", <<"", "">>, NoLabel, <<>>, <<>>, coll, o)
    ELSE Outcome("ok", <<"", "">>, NoLabel, findLabels(coll, q, sorted, limit, now),
                 <<"find">>, coll, o)

\* MongoDBClient.findOne that throws without a collection
clientFindOneRaises(conn, coll, id, o) ==
    IF ~conn THEN Outcome("error", <<"", "Collection is not initialized">>,
                          NoLabel, <<>>, <<>>, coll, o)
    ELSE IF findOne(coll, id) = NoLabel
    THEN Outcome("null", <<"", "">>, NoLabel, <<>>, <<"find">>, coll, o)
    ELSE Outcome("ok", <<"", "">>, findOne(coll, id), <<>>, <<"find">>, coll, o)

\* MongoDBClient.findOne: if (!this._labels) return null;
clientFindOne(conn, coll, id, o) ==
    IF ~conn THEN Outcome("null", <<"", "">>, NoLabel, <<>>, <<>>, coll, o)
    ELSE IF findOne(coll, id) = NoLabel
    THEN Outcome("null", <<"", "">>, NoLabel, <<>>, <<"find">>, coll, o)
    ELSE Outcome("ok", <<"", "">>, findOne(coll, id), <<>>, <<"find">>, coll, o)

\* MongoDBClient.getLabelsAfterCursor: this._labels?.find(..) ?? []
clientGetLabelsAfterCursor(conn, coll, cursor, limit, now, o) ==
    IF ~conn THEN Outcome("ok", <<"", "">>, NoLabel, <<>>, <<>>, coll, o)
    ELSE Outcome("ok", <<"", "">>, NoLabel,
                 Limit(SortById(SelectSeq(coll, LAMBDA d : d._id > cursor)), limit),
                 <<"find">>, coll, o)

\* MongoDBClient.saveLabel: without a collection it throws before anything
\* else is done
clientSaveLabel(conn, coll, label, o, ins) ==
    IF ~conn
    THEN Outcome("error", <<"Failed to save label", "Collection is not initialized">>,
                 NoLabel, <<>>, <<>>, coll, o)
    ELSE LET s == saveLabel(coll, label, o, ins) IN
         IF s.ok THEN Outcome("ok", <<"", "">>, NoLabel, <<>>, <<"insert">>, s.coll, s.oid)
         ELSE Outcome("error", <<"Failed to save label", "">>, NoLabel, <<>>,
                      <<"insert">>, s.coll, s.oid)

\* MongoDBClient.updateLabel
clientUpdateLabel(conn, coll, id, label, o, upd) ==
    IF ~conn
    THEN Outcome("error", <<"", "Collection is not initialized">>,
                 NoLabel, <<>>, <<>>, coll, o)
    ELSE LET u == updateLabel(coll, id, label, upd) IN
         IF u.ok THEN Outcome("ok", <<"", "">>, NoLabel, <<>>, <<"update">>, u.coll, o)
         ELSE Outcome("error", <<"Failed to update label", "">>, NoLabel, <<>>,
                      <<"update">>, u.coll, o)

\* LabelerServer.queryLabels on a client that may be unconnected: findLabels
\* then answers [], which is what it answers on an empty collection
queryLabelsOn(conn, coll, o, sg, query, now) ==
    LET r == queryLabels(IF conn THEN coll ELSE <<>>, o, sg, query, now, TRUE)
    IN  [r EXCEPT !.labels = coll,
                  !.trace = IF conn THEN r.trace ELSE <<>>]

\* LabelerServer.queryLabel on a client that may be unconnected
queryLabelOn(conn, coll, o, sg, id) ==
    IF sg = "failed" THEN queryLabel(coll, o, sg, id, TRUE)
    ELSE LET f == clientFindOne(conn, coll, id, o) IN
         IF f.outcome = "error"
         THEN Outcome("error", <<"Failed to query label", f.msg[2]>>, NoLabel, <<>>,
                      <<>>, coll, o)
         ELSE IF f.outcome = "null" THEN f
         ELSE queryLabel(coll, o, sg, id, TRUE)

\* LabelerServer.createLabel on a client that may be unconnected: the label
\* is validated and signed, createLabel takes its new ObjectId(), and
\* saveLabel throws before it takes its own
createLabelOn(conn, coll, o, sg, data, allowExpired, now) ==
    IF conn THEN createLabel(coll, o, sg, data, allowExpired, now, TRUE, "acked")
    ELSE LET r == createLabel(coll, o, sg, data, allowExpired, now, TRUE, "error")
             s == clientSaveLabel(conn, coll, NoLabel, o + 1, "acked")
         IN  IF r.trace = <<"sign", "insert">>
             THEN Outcome("error", <<"Failed to create label", s.msg[2]>>, NoLabel,
                          <<>>, <<"sign">>, s.labels, s.oid)
             ELSE r

\* the label handed to the client's saveLabel and updateLabel
ClientLabel ==
    signLabel(createUnsigned(BaseInput(clock), clock), "ready", TRUE)

Connect ==
    /\ ~connected
    /\ connected' = TRUE
    /\ UNCHANGED subs
    /\ UNCHANGED svars
    /\ UNCHANGED cvars
    /\ UNCHANGED avars
    /\ UNCHANGED fvars

ClientFindLabels ==
    /\ \E allowExpired \in BOOLEAN :
         LET r == clientFindLabels(connected, labels,
                                   [kind |-> "all", id |-> 0, exp |-> Undef,
                                    allowExpired |-> allowExpired],
                                   FALSE, 0, clock, oid)
         IN  last' = Call("db.findLabels", 0, 0, allowExpired, "ok", r)
    /\ UNCHANGED <<labels, clock, oid, index, signer>>
    /\ UNCHANGED cvars
    /\ UNCHANGED avars
    /\ UNCHANGED fvars
    /\ UNCHANGED dvars

ClientFindOne ==
    /\ \E id \in IdInputs :
         LET r == clientFindOne(connected, labels, id, oid)
         IN  last' = Call("db.findOne", id, 0, FALSE, "ok", r)
    /\ UNCHANGED <<labels, clock, oid, index, signer>>
    /\ UNCHANGED cvars
    /\ UNCHANGED avars
    /\ UNCHANGED fvars
    /\ UNCHANGED dvars

ClientGetLabelsAfterCursor ==
    /\ \E cursor \in CursorInputs, limit \in 1..MaxLimit :
         LET r == clientGetLabelsAfterCursor(connected, labels, cursor, limit, clock, oid)
         IN  last' = Call("db.getLabelsAfterCursor", cursor, limit, FALSE, "ok", r)
    /\ UNCHANGED <<labels, clock, oid, index, signer>>
    /\ UNCHANGED cvars
    /\ UNCHANGED avars
    /\ UNCHANGED fvars
    /\ UNCHANGED dvars

ClientSaveLabel ==
    /\ Len(labels) < MaxLabels
    /\ oid + 1 <= MaxOid
    /\ LET r == clientSaveLabel(connected, labels, ClientLabel, oid, "acked")
       IN  /\ labels' = r.labels
           /\ oid' = r.oid
           /\ last' = Call("db.saveLabel", 0, 0, FALSE, "ok", r)
    /\ UNCHANGED <<clock, index, signer>>
    /\ UNCHANGED cvars
    /\ UNCHANGED avars
    /\ UNCHANGED fvars
    /\ UNCHANGED dvars

ClientUpdateLabel ==
    /\ \E id \in IdInputs :
         LET r == clientUpdateLabel(connected, labels, id,
                                    [ClientLabel EXCEPT !.neg = "true"], oid, "done")
         IN  /\ labels' = r.labels
             /\ last' = Call("db.updateLabel", id, 0, FALSE, "ok", r)
    /\ UNCHANGED <<clock, oid, index, signer>>
    /\ UNCHANGED cvars
    /\ UNCHANGED avars
    /\ UNCHANGED fvars
    /\ UNCHANGED dvars

ServerQueryLabels ==
    /\ signer # "pending"
    /\ \E query \in QueryInputs(clock) :
         LET r == queryLabelsOn(connected, labels, oid, signer, query, clock)
         IN  last' = [Call("queryLabels", 0, 0, query.allowExpired, "ok", r)
                        EXCEPT !.data = [NoData EXCEPT !.exp = query.exp]]
    /\ UNCHANGED <<labels, clock, oid, index, signer>>
    /\ UNCHANGED cvars
    /\ UNCHANGED avars
    /\ UNCHANGED fvars
    /\ UNCHANGED dvars

ServerQueryLabel ==
    /\ signer # "pending"
    /\ \E id \in IdInputs :
         LET r == queryLabelOn(connected, labels, oid, signer, id)
         IN  last' = Call("queryLabel", id, 0, FALSE, "ok", r)
    /\ UNCHANGED <<labels, clock, oid, index, signer>>
    /\ UNCHANGED cvars
    /\ UNCHANGED avars
    /\ UNCHANGED fvars
    /\ UNCHANGED dvars

ServerCreateLabel ==
    /\ signer # "pending"
    /\ Len(labels) < MaxLabels
    /\ oid + 2 <= MaxOid
    /\ \E data \in {BaseInput(clock),
                    [BaseInput(clock) EXCEPT !.exp = TsStr(clock + 1, "iso")],
                    [BaseInput(clock) EXCEPT !.ver = 2]} :
         LET r == createLabelOn(connected, labels, oid, signer, data, FALSE, clock)
         IN  /\ labels' = r.labels
             /\ oid' = r.oid
             /\ last' = [Call("createLabel", 0, 0, FALSE, "ok", r)
                           EXCEPT !.data = data]
    /\ UNCHANGED <<clock, index, signer>>
    /\ UNCHANGED cvars
    /\ UNCHANGED avars
    /\ UNCHANGED fvars
    /\ UNCHANGED dvars

NextConnect ==
    \/ Connect
    \/ ImportResolves
    \/ ImportFails
    \/ ClientFindLabels
    \/ ClientFindOne
    \/ ClientGetLabelsAfterCursor
    \/ ClientSaveLabel
    \/ ClientUpdateLabel
    \/ ServerQueryLabels
    \/ ServerQueryLabel
    \/ ServerCreateLabel

SpecConnect == Constructed /\ [][NextConnect]_vars


\* ------------------------------------------------- subscribeLabels
\* The earlier LabelerServer (part_013) on the store with numeric ids
\* (part_012).  A label is stood for by its id; the ids live in idLabels.

\* getLabelsAfterCursor that also returns the label at the cursor
getLabelsAfterCursorByIdInclusive(stored, cursor, limit) ==
    Limit(SortSeq(SelectSeq(stored, LAMBDA id : id >= cursor),
                  LAMBDA a, b : a < b), limit)

\* getLabelsAfterCursor(cursor, limit):
\* find({id: {$gt: cursor}}).sort({id: 1}).limit(limit)
getLabelsAfterCursorById(stored, cursor, limit) ==
    Limit(SortSeq(SelectSeq(stored, LAMBDA id : id > cursor),
                  LAMBDA a, b : a < b), limit)

\* frameToBytes("message", {seq, labels: [formatLabel({...labelData, id: seq})]},
\* "#labels") and frameToBytes("error", ..)
MessageFrame(id) == [t |-> "#labels", seq |-> id, label |-> id]
ErrorFrame == [t |-> "error", seq |-> 0, label |-> 0]

\* the frames of a replay that sends its first n labels
ReplayFrames(page, n) == [i \in 1..n |-> MessageFrame(page[i])]

\* saveLabel of the store with numeric ids, no other writer in progress
SaveLabelById ==
    /\ Len(idLabels) < MaxSeq
    /\ idLabels' = Append(idLabels, getNextIdOfHighest(idLabels))
    /\ UNCHANGED <<sequenceValue, pc, nextId, dupErrors>>
    /\ UNCHANGED svars
    /\ UNCHANGED avars
    /\ UNCHANGED fvars
    /\ UNCHANGED dvars

\* parseInt(req.query.cursor ?? "NaN", 10): no number, or a number
CursorsParsed == {[isNaN |-> TRUE, n |-> 0], [isNaN |-> FALSE, n |-> 0],
                  [isNaN |-> FALSE, n |-> 1]}

\* subscribeLabelsHandler up to its await: cursor = parseInt(..); a cursor
\* that is not a number ("NaN") skips the replay and the socket is
\* registered at once
SubscribeLabels(s) ==
    /\ subs.sock[s].pc = "none"
    /\ \E cursor \in CursorsParsed :
         subs' = IF cursor.isNaN
                 THEN [subs EXCEPT !.sock[s].pc = "subscribed",
                                   !.connections = @ \cup {s}]
                 ELSE [subs EXCEPT !.sock[s].pc = "replaying",
                                   !.sock[s].cursor = cursor.n]
    /\ UNCHANGED connected
    /\ UNCHANGED svars
    /\ UNCHANGED cvars
    /\ UNCHANGED avars
    /\ UNCHANGED fvars

\* the store answers getLabelsAfterCursor(cursor, 1000) or fails; the frames
\* are sent one after the other, and formatLabel or send may throw at any
\* of them; then the socket is registered, or gets the error frame and is
\* terminated
ReplayAnswers(s) ==
    /\ subs.sock[s].pc = "replaying"
    /\ LET page == getLabelsAfterCursorById(idLabels, subs.sock[s].cursor, ReplayLimit)
       IN  \E sent \in 0..Len(page), threw \in BOOLEAN :
             /\ ~threw => sent = Len(page)
             /\ threw => sent < Len(page) \/ page = <<>>
             /\ subs' = IF threw
                        THEN [subs EXCEPT
                                !.sock[s].pc = "terminated",
                                !.sock[s].frames = Append(ReplayFrames(page, sent), ErrorFrame)]
                        ELSE [subs EXCEPT
                                !.sock[s].pc = "subscribed",
                                !.sock[s].frames = ReplayFrames(page, sent),
                                !.connections = @ \cup {s}]
    /\ UNCHANGED connected
    /\ UNCHANGED svars
    /\ UNCHANGED cvars
    /\ UNCHANGED avars
    /\ UNCHANGED fvars

\* the peer closes the socket; the 'close' handler that removes the
\* subscription is attached only once the socket is registered
SocketCloses(s) ==
    /\ subs.sock[s].pc \in {"replaying", "subscribed"}
    /\ ~subs.sock[s].closed
    /\ subs' = [subs EXCEPT !.sock[s].closed = TRUE,
                            !.connections = @ \ {s}]
    /\ UNCHANGED connected
    /\ UNCHANGED svars
    /\ UNCHANGED cvars
    /\ UNCHANGED avars
    /\ UNCHANGED fvars

NextSubscribe ==
    \/ SaveLabelById
    \/ \E s \in Sockets : SubscribeLabels(s)
    \/ \E s \in Sockets : ReplayAnswers(s)
    \/ \E s \in Sockets : SocketCloses(s)

SpecSubscribe == Init /\ [][NextSubscribe]_vars

\* ------------------------------------------------------------ properties
IsCall(op) == last.op = op

ValidationRejected ==
    /\ IsCall("createLabel")
    /\ last.outcome = "error"
    /\ last.msg[1] = "Label validation failed"

\* C1: when createLabel rejects its input for a validation reason, the
\* signer was not invoked and the store holds exactly the records it held
\* before the call.
C1_NoPartialWrite ==
    ValidationRejected => /\ last.trace = <<>>
                          /\ labels = last.before

\* a rejected expiration on a store that already holds a record
C1_Witness ==
    /\ ValidationRejected
    /\ last.msg[2] = "Expiration timestamp must be in the future"
    /\ last.before # <<>>

\* C2: within one createLabel call the signer is called once after the
\* validation and the insert once after the signer; a failed signer call
\* means no insert, a failed insert means the call raises, and a label is
\* returned only when it was stored.
C2_ValidateSignPersist ==
    IsCall("createLabel") =>
        /\ last.trace \in {<<>>, <<"sign">>, <<"sign", "insert">>}
        /\ (last.trace # <<>> => last.msg[1] # "Label validation failed")
        /\ (last.fate = "sign_error" =>
                /\ last.trace \in {<<>>, <<"sign">>}
                /\ labels = last.before
                /\ last.outcome = "error")
        /\ (last.fate \in {"write_error", "unacked"} => last.outcome = "error")
        /\ (last.outcome = "ok" =>
                /\ last.trace = <<"sign", "insert">>
                /\ Len(labels) = Len(last.before) + 1
                /\ SubSeq(labels, 1, Len(last.before)) = last.before
                /\ labels[Len(labels)].val = last.result.val
                /\ labels[Len(labels)].uri = last.result.uri
                /\ labels[Len(labels)].src = last.result.src
                /\ labels[Len(labels)].sig[1].data = last.result.sig[1].data)

\* the insert failed after a successful signer call
C2_Witness ==
    /\ IsCall("createLabel")
    /\ last.fate = "write_error"
    /\ last.trace = <<"sign", "insert">>
    /\ last.outcome = "error"

\* what queryLabel(id) returns on the collection coll
QueryLabelOn(coll, id) ==
    LET r == queryLabel(coll, oid, "ready", id, TRUE) IN <<r.outcome, r.result>>

DeleteOnExisting ==
    /\ IsCall("deleteLabel")
    /\ last.id \in Ids(last.before)
    /\ last.fate = "ok"
    /\ signer = "ready"

\* C3: deleteLabel(id) on an existing record returns a signed record with
\* neg = true, inserts exactly one new record, and leaves the record stored
\* at id unchanged (queryLabel(id) returns the same record before and after).
C3_DeleteAppendsNegation ==
    DeleteOnExisting =>
        /\ last.outcome = "ok"
        /\ last.result.neg = "true"
        /\ last.result.sig # <<>>
        /\ Len(labels) = Len(last.before) + 1
        /\ SubSeq(labels, 1, Len(last.before)) = last.before
        /\ labels[Len(labels)]._id \notin Ids(last.before)
        /\ labels[Len(labels)].neg = "true"
        /\ QueryLabelOn(labels, last.id) = QueryLabelOn(last.before, last.id)

\* a record that was not negated has been deleted
C3_Witness ==
    /\ DeleteOnExisting
    /\ findOne(last.before, last.id).neg = "undef"
    /\ last.outcome = "ok"

IsPrefix(s, t) == Len(s) <= Len(t) /\ SubSeq(t, 1, Len(s)) = s

WriteOps == {"createLabel", "deleteLabel"}
ReadOps  == {"queryLabels", "queryLabel", "getLabelsAfterCursor"}

\* C4: history is append-only.  In every step the stored records stay where
\* they are and as they are; the store changes only by the insertion of one
\* new record, and only in a createLabel or deleteLabel call; every
\* successful createLabel or deleteLabel inserts exactly one record; the read
\* operations and reverseLabelNegation(id, false) leave the store unchanged.
C4_AppendOnly ==
    [][ /\ IsPrefix(labels, labels')
        /\ Len(labels') <= Len(labels) + 1
        /\ (labels' # labels => last'.op \in WriteOps)
        /\ (last' # last /\ last'.op \in WriteOps /\ last'.outcome = "ok"
               => Len(labels') = Len(labels) + 1)
        /\ (last' # last /\ last'.op \in ReadOps => labels' = labels)
        /\ (last' # last /\ last'.op = "reverseLabelNegation" /\ ~last'.flag
               => labels' = labels)
      ]_vars

\* a record and its negation are stored and a flipped copy of the first has
\* just been handed out without saving
C4_Witness ==
    /\ Len(labels) = 2
    /\ labels[1].neg = "undef"
    /\ labels[2].neg = "true"
    /\ IsCall("reverseLabelNegation")
    /\ ~last.flag
    /\ last.id = labels[1]._id
    /\ last.outcome = "ok"

\* C5: every stored record has exactly one identity, given at insertion; no
\* step changes the identity of a stored record, reverseLabelNegation(id,
\* true) with its updateLabel call included, and no two stored records carry
\* the same identity.
C5_IdentityStable ==
    /\ [](\A i \in 1..Len(labels) : labels[i]._id # 0)
    /\ [](\A i, j \in 1..Len(labels) : i # j => labels[i]._id # labels[j]._id)
    /\ [][\A i \in 1..Len(labels) :
             i <= Len(labels') /\ labels'[i]._id = labels[i]._id]_vars

\* reverseLabelNegation(id, true) found the record, signed the flipped copy
\* and called updateLabel
C5_Witness ==
    /\ IsCall("reverseLabelNegation")
    /\ last.flag
    /\ last.fate = "ok"
    /\ last.id \in Ids(labels)
    /\ last.trace = <<"find", "sign", "update">>

\* the records of coll were all stored by createLabel calls without neg
\* (deleteLabel stores neg = true)
OnlyCreated(coll) == \A i \in 1..Len(coll) : coll[i].neg = "undef"

\* C6: after N sequential successful createLabel calls the N stored records
\* have pairwise distinct identities, strictly increasing in the order of
\* the calls.
C6_SequentialIdsIncrease ==
    (IsCall("createLabel") /\ last.outcome = "ok" /\ OnlyCreated(labels)) =>
        /\ Len(labels) = Len(last.before) + 1
        /\ \A i, j \in 1..Len(labels) : i < j => labels[i]._id < labels[j]._id

\* C7: counter-based store.  Under every interleaving of concurrent
\* saveLabel calls the ids handed out by _getNextId are pairwise distinct:
\* no two stored records share an id, no two pending inserts hold the same
\* id, no pending insert holds a stored id, and no insert has been refused
\* for a duplicate id.
C7_ConcurrentIdsDistinct ==
    /\ dupErrors = 0
    /\ \A i, j \in 1..Len(idLabels) : i # j => idLabels[i] # idLabels[j]
    /\ \A v, w \in Writers :
          (v # w /\ pc[v] = "insert" /\ pc[w] = "insert") => nextId[v] # nextId[w]
    /\ \A w \in Writers : \A i \in 1..Len(idLabels) :
          pc[w] = "insert" => nextId[w] # idLabels[i]

\* two callers took their ids in one order and inserted in the other, while
\* a third call is between its two steps
C7_Witness ==
    /\ Len(idLabels) >= 2
    /\ idLabels[1] > idLabels[2]
    /\ \E w \in Writers : pc[w] = "insert"

CursorPage == IsCall("getLabelsAfterCursor") /\ last.outcome = "ok"

\* C8: getLabelsAfterCursor(cursor, limit) returns no record whose identity
\* is less than or equal to cursor, at most limit records (limit = 0
\* included), and returns them in strictly ascending identity order.
C8_CursorPageBounded ==
    CursorPage =>
        /\ \A i \in 1..Len(last.results) : last.results[i]._id > last.id
        /\ Len(last.results) <= last.limit
        /\ \A i, j \in 1..Len(last.results) :
              i < j => last.results[i]._id < last.results[j]._id

\* the stored records with an identity greater than cursor, lowest first
AfterCursor(coll, cursor) ==
    SortById(SelectSeq2(coll, [i \in 1..Len(coll) |-> coll[i]._id > cursor]))

\* C9: getLabelsAfterCursor(cursor, limit) returns exactly the min(limit, k)
\* lowest-identity records among the k stored records whose identity is
\* greater than cursor, whether or not their exp has passed.  Stated for
\* limit >= 1; limit = 0 is the case of C8.
C9_CursorPageComplete ==
    (CursorPage /\ last.limit >= 1) =>
        LET after == AfterCursor(labels, last.id)
            n     == IF last.limit < Len(after) THEN last.limit ELSE Len(after)
        IN  /\ Len(last.results) = n
            /\ \A i \in 1..n : last.results[i]._id = after[i]._id

\* C10: reverseLabelNegation(id, false) on an existing record returns a
\* signed record whose neg is the negation of the stored neg and leaves the
\* store unchanged, so that queryLabel(id) shows the record as before.
C10_ReversePreviewFlips ==
    (/\ IsCall("reverseLabelNegation")
     /\ ~last.flag
     /\ last.id \in Ids(last.before)
     /\ last.fate = "ok"
     /\ signer = "ready") =>
        /\ last.outcome = "ok"
        /\ last.result.sig # <<>>
        /\ last.result.neg = NotNeg(findOne(last.before, last.id).neg)
        /\ last.trace = <<"find", "sign">>
        /\ labels = last.before
        /\ QueryLabelOn(labels, last.id) = QueryLabelOn(last.before, last.id)

\* reverseLabelNegation(id, true) on a stored record that the lookup finds
\* (its exp is missing or still ahead), with signer and store working
ReverseSaveOnFound ==
    /\ IsCall("reverseLabelNegation")
    /\ last.flag
    /\ last.id \in Ids(last.before)
    /\ NotExpired(findOne(last.before, last.id), toISOString(last.now))
    /\ last.fate = "ok"
    /\ signer = "ready"

\* C11: reverseLabelNegation(id, true) on an existing record returns the
\* record with neg flipped and updates the stored record in place: no record
\* is appended, and queryLabel(id) then returns the flipped neg and the
\* returned sig.
C11_ReverseSaveUpdatesInPlace ==
    ReverseSaveOnFound =>
        /\ last.outcome = "ok"
        /\ last.result.neg = NotNeg(findOne(last.before, last.id).neg)
        /\ Len(labels) = Len(last.before)
        /\ findOne(labels, last.id).neg = last.result.neg
        /\ findOne(labels, last.id).sig[1].data = last.result.sig[1].data

PointLookups == {"queryLabel", "deleteLabel", "reverseLabelNegation"}

\* a point lookup for an id that no stored record has, with signer and store
\* working
PointLookupMiss ==
    /\ last.op \in PointLookups
    /\ last.id \notin Ids(last.before)
    /\ last.fate = "ok"
    /\ signer = "ready"

\* C12: when no stored record has the given id, queryLabel(id),
\* deleteLabel(id) and reverseLabelNegation(id, save) return null without
\* raising, without calling the signer and without changing the store.
C12_MissReturnsNull ==
    PointLookupMiss =>
        /\ last.outcome = "null"
        /\ last.trace = <<"find">>
        /\ labels = last.before

\* reverseLabelNegation(id, true) for an id that is not stored, on a store
\* that holds a record
C12_Witness ==
    /\ PointLookupMiss
    /\ IsCall("reverseLabelNegation")
    /\ last.flag
    /\ last.before # <<>>
    /\ last.outcome = "null"

\* the identities of docs, in order
IdsOf(docs) == [i \in 1..Len(docs) |-> docs[i]._id]

\* doc has an exp that is at or before the instant now
Expired(doc, now) == doc.exp.tag = "str" /\ doc.exp.t <= now

DefaultQuery == IsCall("queryLabels") /\ ~last.flag /\ last.outcome = "ok"

\* C13: queryLabels() with the default filter never returns a record whose
\* exp is at or before the clock at query time; queryLabels({allowExpired:
\* true}) returns every stored record, the expired ones too; queryLabels
\* writes nothing, so a record drops out of the default results by the clock
\* passing its exp alone.
C13_ExpiredHiddenByDefault ==
    /\ DefaultQuery =>
          \A i \in 1..Len(last.results) : ~Expired(last.results[i], last.now)
    /\ (/\ IsCall("queryLabels")
        /\ last.flag
        /\ last.data.exp = Undef
        /\ last.outcome = "ok") => IdsOf(last.results) = IdsOf(labels)
    /\ IsCall("queryLabels") => labels = last.before

\* a record stored with an exp after its cts has expired since and is
\* missing from the results of queryLabels()
C13_Witness ==
    /\ DefaultQuery
    /\ last.data.exp = Undef
    /\ \E i \in 1..Len(labels) :
          /\ labels[i].cts.t < labels[i].exp.t
          /\ Expired(labels[i], last.now)
          /\ \A k \in 1..Len(last.results) : last.results[k]._id # labels[i]._id

\* C14: queryLabels() with the default filter returns every stored record
\* that has no exp or whose exp is strictly after the clock at query time; a
\* label created without exp on a clean store is returned.
C14_ActiveAllReturned ==
    (DefaultQuery /\ last.data.exp = Undef) =>
        \A i \in 1..Len(labels) :
            ~Expired(labels[i], last.now) =>
                \E k \in 1..Len(last.results) : last.results[k]._id = labels[i]._id

\* createLabel was called with the signer import resolved
CreateCalled == IsCall("createLabel") /\ signer = "ready"

\* the data of the last call passes every check once its exp is left out
ValidButExp ==
    createLabelValidation([last.data EXCEPT !.exp = Undef], last.flag, last.now) = "ok"

\* the data of the last call passes every check once its cts is left out
ValidButCts ==
    createLabelValidation([last.data EXCEPT !.cts = Undef], last.flag, last.now) = "ok"

WellFormed(ts) == Truthy(ts) /\ ts.form # "bad"

\* C15: createLabel(data, allowExpired = false) with an exp succeeds only if
\* exp is strictly after the clock at validation time; an exp equal to now or
\* earlier is rejected with 'Expiration timestamp must be in the future' and
\* nothing is stored; with allowExpired = true every well-formed exp is
\* accepted.
C15_ExpStrictlyFuture ==
    (CreateCalled /\ WellFormed(last.data.exp) /\ ValidButExp) =>
        /\ (~last.flag /\ last.data.exp.t <= last.now) =>
              /\ last.outcome = "error"
              /\ last.msg[2] = "Expiration timestamp must be in the future"
              /\ labels = last.before
        /\ ((last.flag \/ last.data.exp.t > last.now) /\ last.fate = "ok") =>
              /\ last.outcome = "ok"
              /\ last.result.exp = last.data.exp

\* an exp equal to the clock was rejected
C15_Witness ==
    /\ CreateCalled
    /\ ~last.flag
    /\ WellFormed(last.data.exp)
    /\ last.data.exp.t = last.now
    /\ last.outcome = "error"

\* C16: createLabel rejects a cts strictly after the clock at validation
\* time and accepts a cts equal to or before it; without a cts the label
\* gets the current time, which passes; no stored label has a cts later than
\* the clock.
C16_CtsNotFuture ==
    /\ (CreateCalled /\ WellFormed(last.data.cts) /\ ValidButCts) =>
          /\ last.data.cts.t > last.now =>
                /\ last.outcome = "error"
                /\ last.msg[2] = "Creation timestamp cannot be in the future"
                /\ labels = last.before
          /\ (last.data.cts.t <= last.now /\ last.fate = "ok") =>
                /\ last.outcome = "ok"
                /\ last.result.cts = last.data.cts
    /\ (CreateCalled /\ ~Truthy(last.data.cts) /\ ValidButCts /\ last.fate = "ok") =>
          /\ last.outcome = "ok"
          /\ last.result.cts = toISOString(last.now)
    /\ \A i \in 1..Len(labels) : labels[i].cts.t <= clock

\* a cts equal to the clock was accepted and stored
C16_Witness ==
    /\ CreateCalled
    /\ WellFormed(last.data.cts)
    /\ last.data.cts.t = last.now
    /\ last.outcome = "ok"
    /\ labels[Len(labels)].cts.t = clock

\* C17: every label createLabel returns, and the record it stores with it,
\* has ver 1; an input whose ver is absent or differs from 1 is rejected as a
\* validation failure that names 'Label version must be 1', before anything
\* is signed or stored.
C17_VersionOne ==
    /\ (IsCall("createLabel") /\ last.outcome = "ok") =>
          /\ last.data.ver = 1
          /\ last.result.ver = 1
          /\ labels[Len(labels)].ver = 1
    /\ (CreateCalled /\ last.data.ver # 1) =>
          /\ last.outcome = "error"
          /\ last.msg = rethrowValidation("Label validation failed: Label version must be 1")
          /\ last.trace = <<>>
          /\ labels = last.before
    /\ \A i \in 1..Len(labels) : labels[i].ver = 1

\* an input without ver was rejected
C17_Witness ==
    /\ CreateCalled
    /\ last.data.ver = 0
    /\ last.outcome = "error"
    /\ last.msg[1] = "Label validation failed"

IsDidUri(uri) == StartsWith(uri, <<"d","i","d",":">>)
IsAtUri(uri)  == StartsWith(uri, <<"a","t",":","/","/">>)
HasCid(l)     == l.cid # <<>> /\ l.cid[1] # <<>>

\* the data of the last call passes every check once its cid is left out
ValidButCid ==
    createLabelValidation([last.data EXCEPT !.cid = <<>>], last.flag, last.now) = "ok"

\* C18: createLabel on a uri beginning with 'did:' together with a non-empty
\* cid, well-formed or not, fails as a validation failure whose reason is
\* 'CID cannot be provided for DID URIs'; nothing is signed or stored, and no
\* stored record has a did: uri together with a cid.
C18_NoCidOnDid ==
    /\ (CreateCalled /\ IsDidUri(last.data.uri) /\ HasCid(last.data)) =>
          /\ last.outcome = "error"
          /\ last.msg[1] = "Label validation failed"
          /\ ValidButCid => last.msg[2] = "CID cannot be provided for DID URIs"
          /\ last.trace = <<>>
          /\ labels = last.before
    /\ \A i \in 1..Len(labels) : IsDidUri(labels[i].uri) => labels[i].cid = <<>>

\* an account subject with a cid that is not even a well-formed cid was
\* rejected for having a cid
C18_Witness ==
    /\ CreateCalled
    /\ IsDidUri(last.data.uri)
    /\ HasCid(last.data)
    /\ validateCid(last.data.cid[1]) # "ok"
    /\ last.outcome = "error"
    /\ last.msg[2] = "CID cannot be provided for DID URIs"

\* the data of the last call passes every check once it carries a good cid
ValidGivenCid ==
    createLabelValidation([last.data EXCEPT !.cid = <<CID_OK>>], last.flag, last.now) = "ok"

ValidationOfLast == createLabelValidation(last.data, last.flag, last.now)

DeleteFound ==
    /\ IsCall("deleteLabel")
    /\ signer = "ready"
    /\ last.id \in Ids(last.before)

\* C21: in deleteLabel a failure of the signer surfaces as 'Failed to delete
\* label' and a failure of the insert as 'Failed to save negated label to
\* database: ...', two different messages; when signing fails no insert is
\* attempted and the collection is unchanged.
C21_DeleteFailuresDistinct ==
    /\ (DeleteFound /\ last.fate = "sign_error") =>
          /\ last.outcome = "error"
          /\ last.msg = <<"Failed to delete label", "Failed to sign label">>
          /\ last.trace = <<"find", "sign">>
          /\ labels = last.before
    /\ (DeleteFound /\ last.fate \in {"write_error", "unacked"}) =>
          /\ last.outcome = "error"
          /\ last.msg = <<"Failed to save negated label to database",
                          "Failed to save label">>
          /\ last.trace = <<"find", "sign", "insert">>

\* the signer failed while a stored record was being deleted
C21_Witness ==
    /\ DeleteFound
    /\ last.fate = "sign_error"
    /\ last.outcome = "error"
    /\ last.trace = <<"find", "sign">>

\* C22: no call invokes the signer before the import has resolved; a call
\* started while the import is pending waits for it and then goes on to its
\* end, it fails only if the import failed, and it does not wait forever.
C22_SignerAwaited ==
    /\ [](\A c \in Callers : calls[c].signedWith \in {"none", "ready"})
    /\ [](\A c \in Callers : calls[c].pc = "failed" => signer = "failed")
    /\ \A c \in Callers :
         (calls[c].pc = "awaitFirst" /\ calls[c].startedPending)
            ~> (calls[c].pc \in {"done", "failed"})

\* a call started while the import was pending has signed with the key
C22_Witness ==
    \E c \in Callers :
        /\ calls[c].startedPending
        /\ calls[c].pc = "done"
        /\ calls[c].signedWith = "ready"
        /\ signer = "ready"

\* C23: once the signer import has failed, every call of createLabel,
\* queryLabels, queryLabel, deleteLabel, reverseLabelNegation and
\* getLabelsAfterCursor fails with an error, whatever its arguments and the
\* store hold (an id that matches no record included), and writes nothing.
C23_FailedImportFailsAll ==
    (signer = "failed" /\ last.op \in Operations) =>
        /\ last.outcome = "error"
        /\ labels = last.before

\* C24: the negation record deleteLabel builds, returns and stores equals
\* the original in ver, val, uri, cid, src and exp, has neg = true whatever
\* the original's neg was, and carries a fresh cts, the time of the
\* deleteLabel call, not the original's cts.
C24_NegationRecordFreshCts ==
    DeleteOnExisting =>
        LET orig == findOne(last.before, last.id)
            rec  == labels[Len(labels)]
        IN  /\ \A l \in {rec, last.result} :
                  /\ l.ver = orig.ver
                  /\ l.val = orig.val
                  /\ l.uri = orig.uri
                  /\ l.cid = orig.cid
                  /\ l.src = orig.src
                  /\ l.exp = orig.exp
                  /\ l.neg = "true"
            /\ rec.cts = toISOString(last.now)
            /\ last.result.cts = toISOString(last.now)

\* C25: every label created by createLabel has a src that is a valid DID:
\* the caller's src when one is supplied, otherwise the service's own DID; a
\* supplied src that fails validateDid, the empty string included, makes
\* createLabel fail.
C25_SrcIsValidDid ==
    /\ validateDid(DID_SERVER) = "ok"
    /\ (CreateCalled /\ last.data.src # <<>> /\ validateDid(last.data.src[1]) # "ok") =>
          /\ last.outcome = "error"
          /\ labels = last.before
    /\ (IsCall("createLabel") /\ last.outcome = "ok") =>
          /\ last.result.src = IF last.data.src # <<>> THEN last.data.src[1]
                               ELSE DID_SERVER
          /\ validateDid(last.result.src) = "ok"
          /\ labels[Len(labels)].src = last.result.src
    /\ \A i \in 1..Len(labels) : validateDid(labels[i].src) = "ok"

\* base64 decoding, as a reader of the wire format does it: four characters
\* give three bytes, '=' padding marks a shorter last group.
Base64Index(ch) == (CHOOSE i \in 1..64 : Base64Chars[i] = ch) - 1
RECURSIVE fromBase64(_)
fromBase64(str) ==
    IF Len(str) < 4 THEN <<>>
    ELSE LET a == Base64Index(str[1])
             b == Base64Index(str[2])
             c == IF str[3] = "=" THEN 0 ELSE Base64Index(str[3])
             d == IF str[4] = "=" THEN 0 ELSE Base64Index(str[4])
             b1 == a * 4 + b \div 16
             b2 == (b % 16) * 16 + c \div 4
             b3 == (c % 4) * 64 + d
         IN  (IF str[3] = "=" THEN <<b1>>
              ELSE IF str[4] = "=" THEN <<b1, b2>>
              ELSE <<b1, b2, b3>>)
             \o fromBase64(SubSeq(str, 5, Len(str)))

\* C26: formatLabel turns raw signature bytes s into {$bytes: b} with b the
\* base64 text that decodes to exactly s, keeps a sig that already has the
\* {$bytes} shape as it is, and raises for a sig that is neither (absent
\* included).
C26_FormatLabelRoundTrip ==
    applied.fn = "formatLabel" =>
        LET sig == applied.arg.sig
            out == applied.out
        IN  /\ sig.shape = "Uint8Array" =>
                  /\ ~out.threw
                  /\ out.label.sig.shape = "$bytes"
                  /\ Len(out.label.sig.str) % 4 = 0
                  /\ fromBase64(out.label.sig.str) = sig.bytes
            /\ sig.shape = "$bytes" =>
                  /\ ~out.threw
                  /\ out.label.sig = sig
            /\ sig.shape \notin {"Uint8Array", "$bytes"} => out.threw

\* a signature of two bytes, which needs padding, was formatted
C26_Witness ==
    /\ applied.fn = "formatLabel"
    /\ applied.arg.sig.shape = "Uint8Array"
    /\ Len(applied.arg.sig.bytes) = 2
    /\ ~applied.out.threw
    /\ applied.out.label.sig.str[4] = "="

\* the value without its leading '!', if it has one
AfterMarker(val) == IF val # <<>> /\ val[1] = "!" THEN Tail(val) ELSE val

\* C27: validateVal accepts a value with a single leading '!', rejects a
\* value with a '!' at any position but the first, and rejects a value with
\* one of the listed punctuation characters anywhere after the optional
\* leading '!'.
C27_BangOnlyLeading ==
    applied.fn = "validateVal" =>
        LET val == applied.arg IN
        /\ (val # <<>> /\ val[1] = "!" /\ AllIn(Tail(val), LowerLetters)) =>
              applied.out = "ok"
        /\ HasAny(AfterMarker(val), {"!"}) => applied.out # "ok"
        /\ HasAny(AfterMarker(val), ValPunctRest) => applied.out # "ok"

\* C28: reverseLabelNegation(id, save) returns null only when no stored
\* record has the identity id; for every stored record, expired or not, it
\* finds the record and (without save) returns the flipped label, so it
\* agrees with queryLabel(id) on whether the record exists.
C28_ReverseFindsEveryRecord ==
    (IsCall("reverseLabelNegation") /\ signer = "ready" /\ last.fate = "ok") =>
        /\ last.outcome = "null" <=> last.id \notin Ids(last.before)
        /\ last.outcome = "null" <=> QueryLabelOn(last.before, last.id)[1] = "null"
        /\ (last.id \in Ids(last.before) /\ ~last.flag) =>
              /\ last.outcome = "ok"
              /\ last.result.neg = NotNeg(findOne(last.before, last.id).neg)

\* the createLabel calls of the createLabels calls made so far have all
\* settled
CreateLabelsSettled ==
    /\ NoCallInProgress
    /\ \E w \in Writers : pc[w] # "idle"

\* C29: createLabels starts one createLabel per value concurrently;
\* however the store steps of those calls (read the highest id, insert)
\* interleave, every requested label ends up stored under an id of its own
\* and the call resolves with all of them.
C29_CreateLabelsAllStored ==
    /\ \A i, j \in 1..Len(idLabels) : i # j => idLabels[i] # idLabels[j]
    /\ \A w \in Writers : pc[w] # "rejected"
    /\ CreateLabelsSettled =>
          \A w \in Writers :
              pc[w] = "resolved" =>
                  /\ \E i \in 1..Len(idLabels) : idLabels[i] = nextId[w]
                  /\ \A v \in Writers : (v # w /\ pc[v] = "resolved") => nextId[v] # nextId[w]

\* C30: with concurrent writers on the counter-based store, a reader that
\* keeps calling getLabelsAfterCursor with the highest id it has received as
\* cursor receives every stored record: once a record with id i is readable,
\* no record with a lower id becomes readable.  (A reader that has read
\* everything stored holds the highest stored id as cursor; find({id: {$gt:
\* cursor}}) never returns a record inserted later under a lower id.)
C30_NoLateLowerId ==
    [][idLabels' # idLabels =>
          \A i \in 1..Len(idLabels) : idLabels[i] < idLabels'[Len(idLabels')]]_vars

\* C31: each completed reverseLabelNegation(id, true) flips the stored neg of
\* the record once: after k calls that went through their lookup, sign and
\* update steps, in any interleaving, the stored neg is the original one
\* exactly when k is even.
C31_ReverseFlipsOnce ==
    labels # <<>> =>
        ((labels[1].neg = reversing.original) <=> (reversing.completed % 2 = 0))

\* C32: after every successful createLabel the record persisted in the store
\* agrees with the label returned to the caller, and with the object whose
\* bytes were signed, on ver, val, uri, cid, neg, src, cts and exp; and
\* reading it back (queryLabel, queryLabels, getLabelsAfterCursor) yields a
\* sig equal, byte for byte, to the sig createLabel returned.
LabelFieldsAgree(a, b) ==
    /\ a.ver = b.ver /\ a.val = b.val /\ a.uri = b.uri /\ a.cid = b.cid
    /\ a.neg = b.neg /\ a.src = b.src /\ a.cts = b.cts /\ a.exp = b.exp

CreatedOk == last.op = "createLabel" /\ last.outcome = "ok"

PersistedByLast == labels[Len(labels)]

SignedBytesOf(label) == label.sig[1].data[1].json

SigsOf(docs, id) == { docs[i].sig : i \in { j \in 1..Len(docs) : docs[j]._id = id } }

ReadBackSigs(id) ==
    { queryLabel(labels, oid, signer, id, TRUE).result.sig }
    \cup SigsOf(queryLabels(labels, oid, signer,
                            [exp |-> Undef, allowExpired |-> TRUE],
                            clock, TRUE).results, id)
    \cup SigsOf(getLabelsAfterCursor(labels, oid, signer, 0, 0, clock, TRUE).results, id)

C32_PersistedAgreesWithReturned ==
    CreatedOk =>
        /\ LabelFieldsAgree(PersistedByLast, last.result)
        /\ LabelFieldsAgree(PersistedByLast, SignedBytesOf(last.result))
        /\ \A s \in ReadBackSigs(PersistedByLast._id) : s = last.result.sig

\* C33: the bytes handed to the signer by createLabel, deleteLabel and
\* reverseLabelNegation encode only ver, val, uri, cid, neg, src, cts and
\* exp: the signed object has no _id key and no sig key.
SignedOk ==
    /\ last.op \in {"createLabel", "deleteLabel", "reverseLabelNegation"}
    /\ last.outcome = "ok"

C33_SignedBytesOnlyLabelFields ==
    SignedOk =>
        /\ SignedBytesOf(last.result)._id = 0
        /\ SignedBytesOf(last.result).sig = <<>>

\* C34: the bytes that are signed depend only on the field values of the
\* label: the same fields supplied in another key order give the same bytes,
\* for createLabel and for the exported signLabel.
Reorderings(obj) ==
    { [i \in 1..Len(obj) |-> obj[f[i]]] :
        f \in { g \in [1..Len(obj) -> 1..Len(obj)] :
                  \A i, j \in 1..Len(obj) : g[i] = g[j] => i = j } }

BytesOf(fn, obj) ==
    IF fn = "signLabel" THEN utilSignLabel(obj).bytes ELSE createLabelBytes(obj).bytes

C34_SignedBytesOrderFree ==
    applied.fn \in {"signLabel", "createLabel"} =>
        \A other \in Reorderings(applied.arg) :
            BytesOf(applied.fn, other) = applied.out.bytes

\* C35: a label created by createLabel with allowExpired = false that
\* carries an exp has cts strictly before exp, in the label returned and in
\* the record stored; and whatever the two timestamps, a cts accepted at the
\* clock reading of the last operation and an exp accepted (allowExpired =
\* false) at the current reading, which is not earlier, are in that order.
TimestampTexts == { TsStr(t, form) : t \in 0..(MaxClock + 1), form \in {"iso", "alt"} }

CreatedWithExp == CreatedOk /\ ~last.flag /\ Truthy(last.result.exp)

C35_CtsBeforeExp ==
    /\ CreatedWithExp =>
         /\ last.result.cts.t < last.result.exp.t
         /\ PersistedByLast.cts.t < PersistedByLast.exp.t
    /\ \A cts \in TimestampTexts :
         (last.now <= clock /\ validateCts(cts, last.now) = "ok") =>
             \A exp \in TimestampTexts :
                 validateExp(exp, FALSE, clock) = "ok" => cts.t < exp.t

\* a label with an exp was created without allowExpired, its cts read from
\* the clock at that moment
C35_Witness ==
    /\ CreatedWithExp
    /\ last.data.cts = Undef
    /\ last.result.cts.t = last.now
    /\ last.result.exp.t = last.now + 1

\* C36: on a client that was never connected findLabels answers [], findOne
\* null and getLabelsAfterCursor [], none raising, while saveLabel and
\* updateLabel raise 'Collection is not initialized'; so on an unconnected
\* server whose signer is ready an accepted queryLabels yields [], queryLabel
\* yields null and a createLabel of valid data fails, and nothing is stored.
Unconnected(op) == last.op = op /\ ~last.connected

C36_UnconnectedClient ==
    /\ Unconnected("db.findLabels") => last.outcome = "ok" /\ last.results = <<>>
    /\ Unconnected("db.findOne") => last.outcome = "null"
    /\ Unconnected("db.getLabelsAfterCursor") =>
         last.outcome = "ok" /\ last.results = <<>>
    /\ Unconnected("db.saveLabel") =>
         last.outcome = "error" /\ last.msg[2] = "Collection is not initialized"
    /\ Unconnected("db.updateLabel") =>
         last.outcome = "error" /\ last.msg[2] = "Collection is not initialized"
    /\ (Unconnected("queryLabels") /\ signer = "ready"
          /\ (Truthy(last.data.exp) =>
                validateExp(last.data.exp, last.flag, last.now) = "ok")) =>
         last.outcome = "ok" /\ last.results = <<>>
    /\ (Unconnected("queryLabel") /\ signer = "ready") => last.outcome = "null"
    /\ (Unconnected("createLabel") /\ signer = "ready") => last.outcome = "error"
    /\ ~connected => labels = <<>>

\* valid data were handed to createLabel on an unconnected server with a
\* ready signer, and the call failed on the missing collection
C36_Witness ==
    /\ Unconnected("createLabel")
    /\ signer = "ready"
    /\ createLabelValidation(last.data, last.flag, last.now) = "ok"
    /\ last.outcome = "error"
    /\ last.msg = <<"Failed to create label", "Collection is not initialized">>

\* C37: queryLabels({exp, allowExpired}) validates exp before touching the
\* store: an exp that is not strictly in the future, without allowExpired,
\* fails with 'Label validation failed: Expiration timestamp must be in the
\* future' and no store query is issued; with allowExpired the store is
\* queried and the records whose exp is the one asked for are returned.
QueriedByExp ==
    /\ last.op = "queryLabels"
    /\ signer = "ready"
    /\ Truthy(last.data.exp)

SeqsOf(frames) == { frames[i].seq : i \in 1..Len(frames) }

IdsAfter(stored, c) == { stored[i] : i \in { j \in 1..Len(stored) : stored[j] > c } }

ReplayComplete(frames, stored, c) ==
    /\ \A i \in 1..Len(frames) :
         /\ frames[i].t = "#labels"
         /\ frames[i].seq = frames[i].label
    /\ \A i, j \in 1..Len(frames) : i < j => frames[i].seq < frames[j].seq
    /\ SeqsOf(frames) \subseteq IdsAfter(stored, c)
    /\ \/ SeqsOf(frames) = IdsAfter(stored, c) /\ Len(frames) <= ReplayLimit
       \/ /\ Len(frames) = ReplayLimit
          /\ \A id \in IdsAfter(stored, c) \ SeqsOf(frames) :
               \A q \in SeqsOf(frames) : q < id

ReplayEndsWell(s) ==
    subs.sock[s].pc = "replaying" /\ subs'.sock[s].pc = "subscribed"

C38_SubscribersState ==
    \A s \in Sockets :
        /\ s \in subs.connections =>
             /\ subs.sock[s].pc = "subscribed"
             /\ \A i \in 1..Len(subs.sock[s].frames) :
                  subs.sock[s].frames[i] # ErrorFrame
        /\ subs.sock[s].pc = "terminated" =>
             /\ s \notin subs.connections
             /\ subs.sock[s].frames # <<>>
             /\ subs.sock[s].frames[Len(subs.sock[s].frames)] = ErrorFrame

C38_SubscribersStep ==
    \A s \in Sockets :
        /\ ReplayEndsWell(s) =>
             ReplayComplete(subs'.sock[s].frames, idLabels, subs.sock[s].cursor)
        /\ (s \in subs'.connections /\ s \notin subs.connections) =>
             \/ ReplayEndsWell(s)
             \/ subs.sock[s].pc = "none" /\ subs'.sock[s].pc = "subscribed"
        /\ subs.sock[s].pc = "terminated" => subs'.sock[s] = subs.sock[s]

C38_ReplayThenSubscribe == [](C38_SubscribersState) /\ [][C38_SubscribersStep]_vars

\* one socket was registered after a replay that the limit cut short, its
\* frames starting after its cursor; another one was terminated after a
\* frame had been sent
C38_Witness ==
    \E s \in Sockets, t \in Sockets :
        /\ s \in subs.connections
        /\ subs.sock[s].cursor = 1
        /\ Len(subs.sock[s].frames) = ReplayLimit
        /\ subs.sock[s].frames[1].seq = 2
        /\ Len(idLabels) > ReplayLimit + 1
        /\ subs.sock[t].pc = "terminated"
        /\ Len(subs.sock[t].frames) = 2

\* C39: the record signLabel builds for signing has ver 1 and a boolean neg
\* (false when neg is absent), holds every other field of the label whose
\* value is neither null nor undefined, with that value (false, 0 and the
\* empty string included), holds no other field, and building it again from
\* itself gives the same record.
CanonicalOf == applied.out.toSign

C39_CanonicalUnsigned ==
    applied.fn = "signLabel" =>
        /\ Get(CanonicalOf, "ver") = "1"
        /\ Get(CanonicalOf, "neg") \in {"true", "false"}
        /\ ~HasKey(applied.arg, "neg") => Get(CanonicalOf, "neg") = "false"
        /\ (Get(CanonicalOf, "neg") = "true")
             <=> (Get(applied.arg, "neg") \in {"true", "1", "'x'"})
        /\ \A k \in LabelKeys \ {"ver", "neg"} :
             /\ HasKey(CanonicalOf, k)
                  <=> (HasKey(applied.arg, k)
                       /\ Get(applied.arg, k) \notin {"null", "undefined"})
             /\ HasKey(CanonicalOf, k) => Get(CanonicalOf, k) = Get(applied.arg, k)
        /\ formatLabelCbor(CanonicalOf) = CanonicalOf

\* a label with a null field and a field holding the empty string was
\* handed to signLabel: the first is left out, the second is kept
C39_Witness ==
    /\ applied.fn = "signLabel"
    /\ \E k \in LabelKeys \ {"ver", "neg"} :
         HasKey(applied.arg, k) /\ Get(applied.arg, k) = "null" /\ ~HasKey(CanonicalOf, k)
    /\ \E k \in LabelKeys \ {"ver", "neg"} :
         HasKey(applied.arg, k) /\ Get(applied.arg, k) = "''" /\ Get(CanonicalOf, k) = "''"
    /\ Get(CanonicalOf, "neg") = "false"

====
